---- MODULE Spec2Model ----
(***************************************************************************)
(* Video processing pipeline of ice-ai: one uploaded video is taken        *)
(* through the face stage and the speech stage by a background job.        *)
(*                                                                         *)
(* Three implementations of the job exist in the repository:               *)
(*   complete_video_api.process_video_complete           (helpers with a   *)
(*       MongoDB collection and the video_database dict as fallback),      *)
(*   CombinedVideoController._process_video_complete     (same body over   *)
(*       CombinedVideoModel),                                              *)
(*   VideoController.process_video_with_speech           (flat record over *)
(*       VideoModel, face stage in VideoFaceExtractorService).             *)
(* impl selects the implementation a behaviour runs.                       *)
(***************************************************************************)
EXTENDS Integers, FiniteSets, Sequences, TLC

(***************************************************************************)
(* Bounds                                                                  *)
(***************************************************************************)
\* largest number of faces / frames / segments a stage call reports
MaxCount == 1

Counts == 0..MaxCount

\* the scoring functions are explored for log-probabilities from
\* -MaxDepth thousandths up to 0
MaxDepth == 3000
\* longest list of segments whose overall confidence is explored
MaxSegments == 3

(***************************************************************************)
(* Values                                                                  *)
(***************************************************************************)
CompleteApi == "complete_video_api"
Combined == "CombinedVideoController"
VideoCtl == "VideoController"
Impls == {CompleteApi, Combined, VideoCtl}
\* the two implementations that share the body of process_video_complete
NestedImpls == {CompleteApi, Combined}

\* a record that is not in a store (dict.get -> None, find_one -> None)
NoRec == [absent |-> TRUE]
\* no exception caught / no value
None == "none"
\* abstract value of datetime.now().isoformat()
Now == "ts"

\* messages of the exceptions the external capabilities raise
FaceError == "face error"
AudioError == "audio error"
WhisperError == "transcribe error"
StoreError == "store unreachable"
TypeError == "classify_emotion() takes 2 positional arguments but 3 were given"

TerminalStage == {"completed", "failed"}
TerminalOverall == {"completed", "partial_success", "failed"}

VARIABLES
    impl,             \* which implementation of the pipeline runs
    mongo_connected,  \* complete_video_api: result of connect_to_mongo at startup
    collection,       \* the video's document in the document store (or NoRec)
    video_database,   \* complete_video_api: the in-memory fallback dict entry (or NoRec)
    pc,               \* position of the background job
    face_result,      \* what the face stage call returned (None before)
    speech_result,    \* what the speech stage call returned (None before)
    exc,              \* message of the exception caught by the job's outer handler
    aggregation,      \* what the aggregation step read and decided (None before)
    poll,             \* last response of the status endpoint
    store_faulted,    \* some store call of the job has failed so far
    confidence_scores,\* avg_logprob of the segments Whisper returned, in thousandths
    scored,           \* the transcription result built from them (NoRec before)
    total_frames,     \* frame sampler: number of frames cap.read() can decode
    frame_interval,   \* frame sampler: the sampling interval
    frames_processed, \* frame sampler: frames decoded so far (frame_count)
    total_processed,  \* process_faces: frame documents handled so far
    faces_found,      \* frame sampler: the face counter
    saved_frames,     \* frame images written, by frame index, in order
    saved_crops,      \* crop images written, as <<frame index, box index>>
    inspected,        \* frame indices handed to the detector, in order
    boxes_seen,       \* number of boxes the detector returned, per inspected frame
    img_shape,        \* extract_face: height and width of the image read
    face_box,         \* extract_face: faces[0], the first box detected (NoRec: none)
    crop_rect,        \* extract_face: what it returned and the rectangle it cropped
    pitch_values,     \* analyze_pitch: the pitch track of the audio, in Hz (0: unvoiced)
    pitch_raises,     \* analyze_pitch: loading or tracking the sound raises
    pitch_result,     \* analyze_pitch: what it did (NoRec before)
    whisper_model,    \* per service instance: is its whisper model loaded
    whisper_loads,    \* number of whisper.load_model calls that returned
    whisper_jobs,     \* service instance of each background job under way
    whisper_requests, \* number of requests accepted so far
    two_collection,   \* two videos: the documents of the Mongo collection
    two_database,     \* two videos: the in-memory dict video_database
    two_pc,           \* two videos: position of each video's job
    two_alone,        \* two videos: the record each run produces on its own
    jobs,             \* background jobs of one video that have not ended
    frames_collection,\* frame_number of the documents of the frames collection
    runs_started,     \* number of requests that enqueued a job so far
    reprocess_run,    \* the job enqueued by the latest reprocess request (0: none)
    reprocess_interval, \* the interval that request gave its job (0: none)
    upload_file,      \* the file of the upload request: content type, decodability
    upload_error,     \* status code of the exception the upload handler raised (0: none)
    store_calls,      \* the store calls and reads issued, in order
    store_at,         \* index of the next of them
    store_seen        \* what the reads returned, per backend

\* the variables of the pipeline of one video
pipeline_vars == <<impl, mongo_connected, collection, video_database, pc,
                   face_result, speech_result, exc, aggregation, poll,
                   store_faulted>>

\* the variables of the confidence scoring
scorer_vars == <<confidence_scores, scored>>

\* the variables of the frame sampling loop
sampler_vars == <<total_frames, frame_interval, frames_processed,
                  total_processed, faces_found, saved_frames, saved_crops,
                  inspected, boxes_seen>>

\* the variables of the crop of one face
crop_vars == <<img_shape, face_box, crop_rect>>

\* the variables of the pitch analysis
pitch_vars == <<pitch_values, pitch_raises, pitch_result>>

\* the variables of the loading of the transcription model
whisper_vars == <<whisper_model, whisper_loads, whisper_jobs, whisper_requests>>

\* the variables of the pipelines of two videos
two_vars == <<two_collection, two_database, two_pc, two_alone>>

\* the variables of the jobs of one video under unrestricted requests
jobs_vars == <<jobs, frames_collection, runs_started, reprocess_run,
               reprocess_interval>>

\* what the pipeline's steps leave alone
side_vars == <<scorer_vars, sampler_vars, crop_vars, pitch_vars, whisper_vars,
               two_vars, jobs_vars, upload_file, upload_error,
    store_calls, store_at, store_seen>>

\* what the steps of one of these leave alone
other_than_scorer == <<sampler_vars, crop_vars, pitch_vars, whisper_vars, two_vars,
    jobs_vars, upload_file, upload_error,
    store_calls, store_at, store_seen>>
other_than_sampler == <<scorer_vars, crop_vars, pitch_vars, whisper_vars, two_vars,
    jobs_vars, upload_file, upload_error,
    store_calls, store_at, store_seen>>
other_than_crop == <<scorer_vars, sampler_vars, pitch_vars, whisper_vars, two_vars,
    jobs_vars, upload_file, upload_error,
    store_calls, store_at, store_seen>>
other_than_pitch == <<scorer_vars, sampler_vars, crop_vars, whisper_vars, two_vars,
    jobs_vars, upload_file, upload_error,
    store_calls, store_at, store_seen>>
other_than_whisper == <<scorer_vars, sampler_vars, crop_vars, pitch_vars, two_vars,
    jobs_vars, upload_file, upload_error,
    store_calls, store_at, store_seen>>
other_than_two == <<scorer_vars, sampler_vars, crop_vars, pitch_vars, whisper_vars,
    jobs_vars, upload_file, upload_error,
    store_calls, store_at, store_seen>>
other_than_jobs == <<scorer_vars, sampler_vars, crop_vars, pitch_vars, whisper_vars,
    two_vars, upload_file, upload_error,
    store_calls, store_at, store_seen>>

vars == <<pipeline_vars, side_vars>>

(***************************************************************************)
(* Dict and document updates                                               *)
(***************************************************************************)
DottedKeys == {"face_extraction.status", "speech_transcription.status"}
TimestampKeys == {"completed_at", "failed_at", "partial_completed_at"}
StageKeys == {"face_extraction", "speech_transcription"}

\* Python dict.update: every key of the update becomes a top-level key
dict_update(rec, upd) ==
    [k \in DOMAIN rec \cup DOMAIN upd |-> IF k \in DOMAIN upd THEN upd[k] ELSE rec[k]]

\* the parent field of a dotted path
Parent(k) == IF k = "face_extraction.status" THEN "face_extraction" ELSE "speech_transcription"

\* MongoDB $set: a plain key replaces the field, a dotted path sets the
\* field inside the embedded document
mongo_set(doc, upd) ==
    LET plain   == DOMAIN upd \ DottedKeys
        dotted  == DOMAIN upd \cap DottedKeys
        base    == [k \in DOMAIN doc \cup plain |-> IF k \in plain THEN upd[k] ELSE doc[k]]
        touched == {Parent(k) : k \in dotted}
        path(p) == CHOOSE k \in dotted : Parent(k) = p
        sub(p)  == IF p \in DOMAIN base
                   THEN dict_update(base[p], [s \in {"status"} |-> upd[path(p)]])
                   ELSE [s \in {"status"} |-> upd[path(p)]]
    IN  [k \in DOMAIN base \cup touched |-> IF k \in touched THEN sub(k) ELSE base[k]]

\* the update carries a fresh datetime.now() value, so it always modifies
\* the document it matches
Stamped(upd) ==
    \E k \in DOMAIN upd :
        \/ k \in TimestampKeys
        \/ k \in StageKeys /\ DOMAIN upd[k] \cap TimestampKeys # {}

(***************************************************************************)
(* complete_video_api: database helper functions.  mongo_fails is the      *)
(* Mongo call raising (caught by the helper).                              *)
(***************************************************************************)
save_video_to_db(coll, mem, video_data, mongo_fails) ==
    IF mongo_connected /\ ~mongo_fails
    THEN [collection |-> video_data, video_database |-> mem]
    ELSE [collection |-> coll, video_database |-> video_data]

get_video_from_db(coll, mem, mongo_fails) ==
    IF mongo_connected /\ ~mongo_fails /\ coll # NoRec THEN coll ELSE mem

update_video_in_db(coll, mem, update_data, mongo_fails) ==
    IF /\ mongo_connected /\ ~mongo_fails /\ coll # NoRec
       /\ (mongo_set(coll, update_data) # coll \/ Stamped(update_data))
    THEN [collection |-> mongo_set(coll, update_data), video_database |-> mem, ok |-> TRUE]
    ELSE IF mem # NoRec
         THEN [collection |-> coll, video_database |-> dict_update(mem, update_data), ok |-> TRUE]
         ELSE [collection |-> coll, video_database |-> mem, ok |-> FALSE]

(***************************************************************************)
(* Record stores whose code is not in the repository snapshot:             *)
(* CombinedVideoModel (create_video / get_video / update_video) and        *)
(* VideoModel (create / get_by_id / update).  Both are the record store of *)
(* the specification: get, upsert and partial update by field path on one  *)
(* document; a call on an unreachable store raises.                        *)
(***************************************************************************)
create_video(doc, video_data, unreachable) ==
    IF unreachable THEN [doc |-> doc, raised |-> TRUE]
    ELSE [doc |-> video_data, raised |-> FALSE]

get_video(doc, unreachable) ==
    IF unreachable THEN [doc |-> NoRec, raised |-> TRUE]
    ELSE [doc |-> doc, raised |-> FALSE]

update_video(doc, update_data, unreachable) ==
    IF unreachable THEN [doc |-> doc, raised |-> TRUE]
    ELSE IF doc = NoRec THEN [doc |-> doc, raised |-> FALSE]
    ELSE [doc |-> mongo_set(doc, update_data), raised |-> FALSE]

(***************************************************************************)
(* Store access of process_video_complete, by implementation               *)
(***************************************************************************)
\* outcomes of one store call: for complete_video_api the Mongo call inside
\* the helper raising, for the model classes the store being unreachable
StoreFaults ==
    IF impl = CompleteApi /\ ~mongo_connected THEN {FALSE} ELSE BOOLEAN

Save(video_data, fault) ==
    IF impl = CompleteApi
    THEN LET r == save_video_to_db(collection, video_database, video_data, fault)
         IN  [collection |-> r.collection, video_database |-> r.video_database,
              raised |-> FALSE]
    ELSE LET r == create_video(collection, video_data, fault)
         IN  [collection |-> r.doc, video_database |-> video_database,
              raised |-> r.raised]

Get(fault) ==
    IF impl = CompleteApi
    THEN [doc |-> get_video_from_db(collection, video_database, fault), raised |-> FALSE]
    ELSE get_video(collection, fault)

Update(update_data, fault) ==
    IF impl = CompleteApi
    THEN LET r == update_video_in_db(collection, video_database, update_data, fault)
         IN  [collection |-> r.collection, video_database |-> r.video_database,
              raised |-> FALSE, ok |-> r.ok]
    ELSE LET r == update_video(collection, update_data, fault)
         IN  [collection |-> r.doc, video_database |-> video_database,
              raised |-> r.raised, ok |-> ~r.raised /\ collection # NoRec]

\* the record a reader gets when the store answers
Stored == Get(FALSE).doc

(***************************************************************************)
(* Confidence scoring of VideoProcessor / VideoProcessingService.          *)
(* A segment's avg_logprob is an integer number of thousandths; a          *)
(* log-probability handed to the two functions is the rational num / den   *)
(* (den > 0), so that the mean of a list is exact.  A percentage is an     *)
(* integer number of tenths of a percent (round(percentage, 1)).           *)
(***************************************************************************)
Thousandths(n) == [num |-> n, den |-> 1000]

\* Python round() of the rational n / d to an integer: nearest, ties to even
RoundHalfEven(n, d) ==
    LET q == n \div d
        r == n % d
    IN  IF 2 * r < d THEN q
        ELSE IF 2 * r > d THEN q + 1
        ELSE IF q % 2 = 0 THEN q ELSE q + 1

\* a plausible slip: the lower clamp max(0, ...) is left out
convert_confidence_to_percentage_unclamped(log_prob) ==
    IF log_prob.num >= 0 THEN 1000
    ELSE LET percentage == 100 * log_prob.den + 40 * log_prob.num
             clamped == IF percentage > 100 * log_prob.den
                        THEN 100 * log_prob.den ELSE percentage
         IN  RoundHalfEven(10 * clamped, log_prob.den)

\* 100 * (1 + log_prob / 2.5) = (100 * den + 40 * num) / den, clamped to
\* [0, 100] and rounded to one decimal
convert_confidence_to_percentage(log_prob) ==
    IF log_prob.num >= 0 THEN 1000
    ELSE LET percentage == 100 * log_prob.den + 40 * log_prob.num
             upper == IF percentage > 100 * log_prob.den
                      THEN 100 * log_prob.den ELSE percentage
             clamped == IF upper < 0 THEN 0 ELSE upper
         IN  RoundHalfEven(10 * clamped, log_prob.den)

\* a plausible slip: the thresholds are compared with > instead of >=
get_confidence_quality_strict(log_prob) ==
    IF 10 * log_prob.num > -1 * log_prob.den THEN "Excellent"
    ELSE IF 10 * log_prob.num > -3 * log_prob.den THEN "Good"
    ELSE IF 2 * log_prob.num > -1 * log_prob.den THEN "Fair"
    ELSE IF log_prob.num > -1 * log_prob.den THEN "Poor"
    ELSE "Very Poor"

\* thresholds -0.1, -0.3, -0.5, -1.0
get_confidence_quality(log_prob) ==
    IF 10 * log_prob.num >= -1 * log_prob.den THEN "Excellent"
    ELSE IF 10 * log_prob.num >= -3 * log_prob.den THEN "Good"
    ELSE IF 2 * log_prob.num >= -1 * log_prob.den THEN "Fair"
    ELSE IF log_prob.num >= -1 * log_prob.den THEN "Poor"
    ELSE "Very Poor"

RECURSIVE sum(_)
sum(scores) == IF scores = <<>> THEN 0 ELSE Head(scores) + sum(Tail(scores))

\* a plausible slip: the sum is not divided by the number of segments
overall_confidence_raw_undivided(scores) ==
    IF scores = <<>> THEN [num |-> 0, den |-> 1]
    ELSE [num |-> sum(scores), den |-> 1000]

\* a plausible slip: an empty list scores as a low confidence, not as 0
overall_confidence_raw_empty_low(scores) ==
    IF scores = <<>> THEN [num |-> -1, den |-> 1]
    ELSE [num |-> sum(scores), den |-> 1000 * Len(scores)]

\* sum(confidence_scores) / len(confidence_scores) if confidence_scores else 0
overall_confidence_raw(scores) ==
    IF scores = <<>> THEN [num |-> 0, den |-> 1]
    ELSE [num |-> sum(scores), den |-> 1000 * Len(scores)]

\* segment["end"] of Whisper's i-th segment, in whole seconds: the segments
\* follow one another, here one second each
segment_end(i) == i

\* result['segments'][-1]['end'] if result['segments'] else 0
total_duration(scores) ==
    IF scores = <<>> THEN 0 ELSE segment_end(Len(scores))

\* the result extract_and_transcribe_speech builds from Whisper's segments
transcription_result(scores) ==
    [success |-> TRUE,
     audio_file_path |-> "audio.wav",
     transcription_segments |->
        [i \in 1..Len(scores) |->
            [end_time |-> segment_end(i),
             confidence |-> scores[i],
             confidence_percentage |->
                convert_confidence_to_percentage(Thousandths(scores[i]))]],
     total_segments |-> Len(scores),
     total_duration |-> total_duration(scores),
     overall_confidence |-> overall_confidence_raw(scores),
     overall_confidence_percentage |->
        convert_confidence_to_percentage(overall_confidence_raw(scores)),
     overall_confidence_quality |->
        get_confidence_quality(overall_confidence_raw(scores))]

(***************************************************************************)
(* Stage calls of VideoProcessor / VideoProcessingService: every exception *)
(* is caught inside the call and returned as success = False               *)
(***************************************************************************)
extract_faces ==
    {[success |-> TRUE, faces_detected |-> n, frames_dir |-> "frames"] : n \in Counts}
        \cup {[success |-> FALSE, error |-> FaceError]}

\* the lists of avg_logprob Whisper returns in the runs of the pipeline
Transcripts == UNION {[1..n -> {-450}] : n \in Counts}

extract_and_transcribe_speech ==
    {transcription_result(scores) : scores \in Transcripts}
        \cup {[success |-> FALSE, error |-> e] : e \in {AudioError, WhisperError}}

(***************************************************************************)
(* Records and updates written by upload_video and process_video_complete  *)
(***************************************************************************)
\* os.path.getsize(file_path) and datetime.now().isoformat() at upload
FileSize == 1
UploadTime == "t0"

video_record ==
    [video_id |-> "v", filename |-> "f", file_path |-> "p",
     file_size |-> FileSize, upload_time |-> UploadTime,
     status |-> "uploaded",
     face_extraction |-> [status |-> "queued"],
     speech_transcription |-> [status |-> "queued"]]

processing_update ==
    ("status" :> "processing")
        @@ ("face_extraction.status" :> "processing")
        @@ ("speech_transcription.status" :> "processing")

face_data(res) ==
    IF res.success
    THEN [face_extraction |-> [status |-> "completed",
                               faces_detected |-> res.faces_detected,
                               frames_dir |-> res.frames_dir,
                               completed_at |-> Now]]
    ELSE [face_extraction |-> [status |-> "failed", error |-> res.error,
                               failed_at |-> Now]]

speech_data(res) ==
    IF res.success
    THEN [speech_transcription |->
            [status |-> "completed",
             audio_file_path |-> res.audio_file_path,
             transcription_segments |-> res.transcription_segments,
             total_segments |-> res.total_segments,
             total_duration |-> res.total_duration,
             overall_confidence |-> res.overall_confidence,
             overall_confidence_percentage |-> res.overall_confidence_percentage,
             overall_confidence_quality |-> res.overall_confidence_quality,
             completed_at |-> Now]]
    ELSE [speech_transcription |-> [status |-> "failed", error |-> res.error,
                                    failed_at |-> Now]]

\* a plausible slip: the mixed outcome is reported as a failure
overall_status_mixed_failed(face_status, speech_status) ==
    IF face_status = "completed" /\ speech_status = "completed" THEN "completed"
    ELSE "failed"

\* the if / elif / else that chooses the final status
overall_status(face_status, speech_status) ==
    IF face_status = "completed" /\ speech_status = "completed" THEN "completed"
    ELSE IF face_status = "failed" /\ speech_status = "failed" THEN "failed"
    ELSE "partial_success"

\* a plausible slip: the final update stamps upload_time
final_update_restamps(status) == [status |-> status, upload_time |-> Now]

final_update(status) ==
    IF status = "completed" THEN [status |-> status, completed_at |-> Now]
    ELSE IF status = "failed" THEN [status |-> status, failed_at |-> Now]
    ELSE [status |-> status, partial_completed_at |-> Now]

error_update(e) == [status |-> "failed", error |-> e, failed_at |-> Now]

(***************************************************************************)
(* Initial state: the service has started, no video has been uploaded      *)
(***************************************************************************)
\* no scoring is under way
ScorerIdle ==
    /\ confidence_scores = <<>>
    /\ scored = NoRec

\* no frame sampling is under way
SamplerIdle ==
    /\ total_frames = 0
    /\ frame_interval = 0
    /\ frames_processed = 0
    /\ total_processed = 0
    /\ faces_found = 0
    /\ saved_frames = <<>>
    /\ saved_crops = <<>>
    /\ inspected = <<>>
    /\ boxes_seen = <<>>

\* no face is being cropped
CropIdle ==
    /\ img_shape = NoRec
    /\ face_box = NoRec
    /\ crop_rect = NoRec

\* no pitch analysis is under way
PitchIdle ==
    /\ pitch_values = <<>>
    /\ pitch_raises = FALSE
    /\ pitch_result = NoRec

\* the worker process has just started: the service instance created at
\* import time exists, its model is None, no job is under way
WhisperIdle ==
    /\ whisper_model = <<FALSE>>
    /\ whisper_loads = 0
    /\ whisper_jobs = <<>>
    /\ whisper_requests = 0

\* the two videos of the interleaving
VideoIds == {"a", "b"}

\* neither video has been uploaded
TwoIdle ==
    /\ two_collection = <<>>
    /\ two_database = [id \in VideoIds |-> NoRec]
    /\ two_pc = [id \in VideoIds |-> "idle"]
    /\ two_alone = [id \in VideoIds |->
                      [collection |-> NoRec, video_database |-> NoRec]]

\* the video has not been uploaded, the frames collection is empty
JobsIdle ==
    /\ jobs = <<>>
    /\ frames_collection = <<>>
    /\ runs_started = 0
    /\ reprocess_run = 0
    /\ reprocess_interval = 0

\* the file of the upload request is a decodable video, nothing was raised
UploadIdle ==
    /\ upload_file = [content_type_video |-> TRUE, decodable |-> TRUE]
    /\ upload_error = 0

\* no store call has been issued
BackendsIdle ==
    /\ store_calls = <<>>
    /\ store_at = 0
    /\ store_seen = [connected |-> <<>>, fallback |-> <<>>]

Init ==
    /\ impl \in Impls
    /\ mongo_connected \in (IF impl = CompleteApi THEN BOOLEAN ELSE {TRUE})
    /\ collection = NoRec
    /\ video_database = NoRec
    /\ pc = "idle"
    /\ face_result = NoRec
    /\ speech_result = NoRec
    /\ exc = None
    /\ aggregation = NoRec
    /\ poll = NoRec
    /\ store_faulted = FALSE
    /\ ScorerIdle
    /\ SamplerIdle
    /\ CropIdle
    /\ PitchIdle
    /\ WhisperIdle
    /\ TwoIdle
    /\ JobsIdle
    /\ UploadIdle
    /\ BackendsIdle

(***************************************************************************)
(* complete_video_api / CombinedVideoController                            *)
(***************************************************************************)
\* POST /upload of a video file: create the record, enqueue the job
upload_video ==
    /\ impl \in NestedImpls
    /\ UNCHANGED side_vars
    /\ pc = "idle"
    /\ \E fault \in StoreFaults :
          LET r == Save(video_record, fault)
          IN  /\ collection' = r.collection
              /\ video_database' = r.video_database
              /\ pc' = IF r.raised THEN "idle" ELSE "queued"
              /\ store_faulted' = (store_faulted \/ fault)
    /\ UNCHANGED <<impl, mongo_connected, face_result, speech_result,
                   exc, aggregation, poll>>

\* where the job goes after a store call
Continue(r, next) == IF r.raised THEN "except" ELSE next
Caught(r) == IF r.raised THEN StoreError ELSE exc

\* "Update status to processing"
process_video_complete_start ==
    /\ impl \in NestedImpls
    /\ UNCHANGED side_vars
    /\ pc = "queued"
    /\ \E fault \in StoreFaults :
          LET r == Update(processing_update, fault)
          IN  /\ collection' = r.collection
              /\ video_database' = r.video_database
              /\ pc' = Continue(r, "face")
              /\ exc' = Caught(r)
              /\ store_faulted' = (store_faulted \/ fault)
    /\ UNCHANGED <<impl, mongo_connected, face_result, speech_result,
                   aggregation, poll>>

\* a plausible slip: a failed face stage ends the job before the speech stage
after_face_abort(res) == IF res.success THEN "speech" ELSE "aggregate"

\* the statement that follows the face stage's if / else
after_face(res) == "speech"

\* "Process faces first": run the stage, persist its result
process_video_complete_face ==
    /\ impl \in NestedImpls
    /\ UNCHANGED side_vars
    /\ pc = "face"
    /\ \E res \in extract_faces, fault \in StoreFaults :
          LET r == Update(face_data(res), fault)
          IN  /\ face_result' = res
              /\ collection' = r.collection
              /\ video_database' = r.video_database
              /\ pc' = Continue(r, after_face(res))
              /\ exc' = Caught(r)
              /\ store_faulted' = (store_faulted \/ fault)
    /\ UNCHANGED <<impl, mongo_connected, speech_result, aggregation, poll>>

\* "Process speech transcription": run the stage, persist its result
process_video_complete_speech ==
    /\ impl \in NestedImpls
    /\ UNCHANGED side_vars
    /\ pc = "speech"
    /\ \E res \in extract_and_transcribe_speech, fault \in StoreFaults :
          LET r == Update(speech_data(res), fault)
          IN  /\ speech_result' = res
              /\ collection' = r.collection
              /\ video_database' = r.video_database
              /\ pc' = Continue(r, "aggregate")
              /\ exc' = Caught(r)
              /\ store_faulted' = (store_faulted \/ fault)
    /\ UNCHANGED <<impl, mongo_connected, face_result, aggregation, poll>>

\* "Update overall status": re-read the record, write the final status
process_video_complete_aggregate ==
    /\ impl \in NestedImpls
    /\ UNCHANGED side_vars
    /\ pc = "aggregate"
    /\ \E read_fault \in StoreFaults, fault \in StoreFaults :
          LET g == Get(read_fault)
          IN  IF g.raised
              THEN /\ pc' = "except"
                   /\ exc' = StoreError
                   /\ store_faulted' = TRUE
                   /\ UNCHANGED <<collection, video_database, aggregation>>
              ELSE IF g.doc = NoRec
              THEN /\ pc' = "done"
                   /\ store_faulted' = (store_faulted \/ read_fault)
                   /\ UNCHANGED <<collection, video_database, aggregation, exc>>
              ELSE LET face_status   == g.doc["face_extraction"]["status"]
                       speech_status == g.doc["speech_transcription"]["status"]
                       status == overall_status(face_status, speech_status)
                       r == Update(final_update(status), fault)
                   IN  /\ collection' = r.collection
                       /\ video_database' = r.video_database
                       /\ aggregation' = [face_status |-> face_status,
                                          speech_status |-> speech_status,
                                          status |-> status, applied |-> r.ok]
                       /\ pc' = Continue(r, "done")
                       /\ exc' = Caught(r)
                       /\ store_faulted' = (store_faulted \/ read_fault \/ fault)
    /\ UNCHANGED <<impl, mongo_connected, face_result, speech_result, poll>>

\* except Exception as e: record the failure on the video
process_video_complete_except ==
    /\ impl \in NestedImpls
    /\ UNCHANGED side_vars
    /\ pc = "except"
    /\ \E fault \in StoreFaults :
          LET r == Update(error_update(exc), fault)
          IN  /\ collection' = r.collection
              /\ video_database' = r.video_database
              /\ pc' = IF r.raised THEN "raised" ELSE "done"
              /\ store_faulted' = (store_faulted \/ fault)
    /\ UNCHANGED <<impl, mongo_connected, face_result, speech_result,
                   exc, aggregation>>
    /\ UNCHANGED poll

\* GET /status/{video_id}
get_video_status ==
    /\ impl \in NestedImpls
    /\ UNCHANGED side_vars
    /\ pc # "idle"
    /\ \E fault \in StoreFaults :
          LET g == Get(fault)
          IN  poll' = IF g.raised THEN [code |-> 500]
                      ELSE IF g.doc = NoRec THEN [code |-> 404]
                      ELSE [code |-> 200,
                            status |-> g.doc["status"],
                            face_extraction |-> g.doc["face_extraction"],
                            speech_transcription |-> g.doc["speech_transcription"]]
    /\ UNCHANGED <<impl, mongo_connected, collection, video_database, pc,
                   face_result, speech_result, exc, aggregation, store_faulted>>

\* body of get_transcription once the record video_data has been found;
\* complete_video_api returns the outcome without the overall confidence
transcription_response(video_data) ==
    LET speech == video_data["speech_transcription"]
    IN  IF speech["status"] # "completed"
        THEN [code |-> 200, endpoint |-> "transcription",
              status |-> speech["status"],
              message |-> "Transcription not completed yet"]
        ELSE IF impl = CompleteApi
        THEN [code |-> 200, endpoint |-> "transcription",
              transcription_segments |-> speech["transcription_segments"],
              total_segments |-> speech["total_segments"],
              audio_file_path |-> speech["audio_file_path"]]
        ELSE [code |-> 200, endpoint |-> "transcription",
              transcription_segments |-> speech["transcription_segments"],
              total_segments |-> speech["total_segments"],
              overall_confidence |-> speech["overall_confidence"],
              overall_confidence_percentage |-> speech["overall_confidence_percentage"],
              overall_confidence_quality |-> speech["overall_confidence_quality"],
              audio_file_path |-> speech["audio_file_path"]]

\* body of get_frames_info once the record video_data has been found
frames_response(video_data) ==
    LET face == video_data["face_extraction"]
    IN  IF face["status"] # "completed"
        THEN [code |-> 200, endpoint |-> "frames",
              status |-> face["status"],
              message |-> "Face extraction not completed yet"]
        ELSE [code |-> 200, endpoint |-> "frames",
              faces_detected |-> face["faces_detected"],
              frames_directory |-> face["frames_dir"]]

\* how the two result endpoints find the record: complete_video_api looks
\* in the video_database dict only, CombinedVideoController asks its model
found_record(fault) ==
    IF impl = CompleteApi THEN [doc |-> video_database, raised |-> FALSE]
    ELSE get_video(collection, fault)

\* GET /transcription/{video_id}
get_transcription ==
    /\ impl \in NestedImpls
    /\ UNCHANGED side_vars
    /\ pc # "idle"
    /\ \E fault \in StoreFaults :
          LET g == found_record(fault)
          IN  poll' = IF g.raised THEN [code |-> 500, endpoint |-> "transcription"]
                      ELSE IF g.doc = NoRec
                      THEN [code |-> 404, endpoint |-> "transcription"]
                      ELSE transcription_response(g.doc)
    /\ UNCHANGED <<impl, mongo_connected, collection, video_database, pc,
                   face_result, speech_result, exc, aggregation, store_faulted>>

\* GET /frames/{video_id}
get_frames_info ==
    /\ impl \in NestedImpls
    /\ UNCHANGED side_vars
    /\ pc # "idle"
    /\ \E fault \in StoreFaults :
          LET g == found_record(fault)
          IN  poll' = IF g.raised THEN [code |-> 500, endpoint |-> "frames"]
                      ELSE IF g.doc = NoRec
                      THEN [code |-> 404, endpoint |-> "frames"]
                      ELSE frames_response(g.doc)
    /\ UNCHANGED <<impl, mongo_connected, collection, video_database, pc,
                   face_result, speech_result, exc, aggregation, store_faulted>>

(***************************************************************************)
(* VideoController + VideoFaceExtractorService + SpeechTranscriptionService*)
(* The record is flat: status, transcription_status, transcription_error,  *)
(* error_message, audio_file_path, frames_extracted, faces_found, ...      *)
(***************************************************************************)
video_data ==
    [filename |-> "f", file_path |-> "p", file_size |-> FileSize,
     content_type |-> "video/mp4", status |-> "uploaded",
     frame_interval |-> 30, audio_file_path |-> None,
     transcription_segments |-> <<>>, pitch_analysis |-> <<>>,
     emotion_classification |-> <<>>,
     transcription_status |-> "pending", transcription_error |-> None]

\* VideoController.upload_video
VideoController_upload_video ==
    /\ impl = VideoCtl
    /\ UNCHANGED side_vars
    /\ pc = "idle"
    /\ \E fault \in BOOLEAN :
          LET r == create_video(collection, video_data, fault)
          IN  /\ collection' = r.doc
              /\ pc' = IF r.raised THEN "idle" ELSE "queued"
              /\ store_faulted' = (store_faulted \/ fault)
    /\ UNCHANGED <<impl, mongo_connected, video_database, face_result,
                   speech_result, exc, aggregation, poll>>

\* process_video_with_speech: "Update status to processing"
process_video_with_speech_start ==
    /\ impl = VideoCtl
    /\ UNCHANGED side_vars
    /\ pc = "queued"
    /\ \E fault \in BOOLEAN :
          LET r == update_video(collection,
                                [status |-> "processing",
                                 transcription_status |-> "processing"], fault)
          IN  /\ collection' = r.doc
              /\ pc' = Continue(r, "face_start")
              /\ exc' = Caught(r)
              /\ store_faulted' = (store_faulted \/ fault)
    /\ UNCHANGED <<impl, mongo_connected, video_database, face_result,
                   speech_result, aggregation, poll>>

\* the except clause of process_video_async, entered with the document doc
\* after a store call raised: one more update, which may raise out of the
\* face stage into the handler of process_video_with_speech
process_video_async_except(doc, fault) ==
    update_video(doc, [status |-> "failed", error_message |-> StoreError,
                       processing_failed_at |-> Now], fault)

\* process_video_async: "Update status to processing"
process_video_async_start ==
    /\ impl = VideoCtl
    /\ UNCHANGED side_vars
    /\ pc = "face_start"
    /\ \E fault \in BOOLEAN, handler_fault \in BOOLEAN :
          LET r == update_video(collection,
                                [status |-> "processing",
                                 processing_started_at |-> Now], fault)
              h == process_video_async_except(r.doc, handler_fault)
          IN  IF ~r.raised
              THEN /\ collection' = r.doc
                   /\ pc' = "face"
                   /\ UNCHANGED <<exc, face_result, store_faulted>>
              ELSE /\ collection' = h.doc
                   /\ pc' = Continue(h, "speech")
                   /\ exc' = Caught(h)
                   /\ face_result' = [success |-> FALSE, error |-> StoreError]
                   /\ store_faulted' = TRUE
    /\ UNCHANGED <<impl, mongo_connected, video_database, speech_result,
                   aggregation, poll>>

\* extract_frames and process_faces swallow their exceptions: the first
\* returns the number of frames saved (0 on error), the second the number
\* of frames with a face (0 on error)
extract_frames == Counts
process_faces(frames_extracted) == 0..frames_extracted

NoFrames == "No frames could be extracted"

\* process_video_async: extract frames, process faces, write the result
process_video_async ==
    /\ impl = VideoCtl
    /\ UNCHANGED side_vars
    /\ pc = "face"
    /\ \E frames_extracted \in extract_frames, fault \in BOOLEAN,
          handler_fault \in BOOLEAN :
        \E found \in process_faces(frames_extracted) :
          LET upd == IF frames_extracted = 0
                     THEN [status |-> "failed", error_message |-> NoFrames]
                     ELSE [status |-> "completed",
                           processing_completed_at |-> Now,
                           frames_extracted |-> frames_extracted,
                           faces_found |-> found]
              r == update_video(collection, upd, fault)
              h == process_video_async_except(r.doc, handler_fault)
          IN  IF ~r.raised
              THEN /\ collection' = r.doc
                   /\ pc' = "speech"
                   /\ face_result' =
                        IF frames_extracted = 0
                        THEN [success |-> FALSE, error |-> NoFrames]
                        ELSE [success |-> TRUE, faces_detected |-> found]
                   /\ UNCHANGED <<exc, store_faulted>>
              ELSE /\ collection' = h.doc
                   /\ pc' = Continue(h, "speech")
                   /\ exc' = Caught(h)
                   /\ face_result' = [success |-> FALSE, error |-> StoreError]
                   /\ store_faulted' = TRUE
    /\ UNCHANGED <<impl, mongo_connected, video_database, speech_result,
                   aggregation, poll>>

\* a plausible slip: the handler also fails the video
speech_except_fails_video(doc, e, fault) ==
    update_video(doc, [status |-> "failed",
                       transcription_status |-> "failed",
                       transcription_error |-> e], fault)

\* the except clause around the speech part of process_video_with_speech and
\* the one of process_speech_only: record the failure; the update may raise
speech_except(doc, e, fault) ==
    update_video(doc, [transcription_status |-> "failed",
                       transcription_error |-> e], fault)

\* SpeechTranscriptionService.extract_audio: the audio path, or it raises
extract_audio == {[raised |-> FALSE, audio_path |-> "audio.wav"],
                  [raised |-> TRUE, error |-> AudioError]}

\* process_video_with_speech: extract the audio, store its path
process_video_with_speech_audio ==
    /\ impl = VideoCtl
    /\ UNCHANGED side_vars
    /\ pc = "speech"
    /\ \E a \in extract_audio, fault \in BOOLEAN, handler_fault \in BOOLEAN :
          LET r == IF a.raised THEN [doc |-> collection, raised |-> TRUE]
                   ELSE update_video(collection,
                                     [audio_file_path |-> a.audio_path], fault)
              e == IF a.raised THEN a.error ELSE StoreError
              h == speech_except(r.doc, e, handler_fault)
          IN  IF ~r.raised
              THEN /\ collection' = r.doc
                   /\ pc' = "transcribe"
                   /\ UNCHANGED <<exc, speech_result, store_faulted>>
              ELSE /\ collection' = h.doc
                   /\ pc' = Continue(h, "done")
                   /\ exc' = Caught(h)
                   /\ speech_result' = [success |-> FALSE, error |-> e]
                   /\ store_faulted' = (store_faulted \/ ~a.raised \/ h.raised)
    /\ UNCHANGED <<impl, mongo_connected, video_database, face_result,
                   aggregation, poll>>

\* SpeechTranscriptionService.transcribe_with_timestamps: segments, or it raises
transcribe_with_timestamps ==
    {[raised |-> FALSE, total_segments |-> n] : n \in Counts}
        \cup {[raised |-> TRUE, error |-> WhisperError]}

\* classify_emotion(self, avg_pitch) is called as
\* classify_emotion(transcription_segments, pitch_analysis): the call raises
classify_emotion_raises == TRUE

\* process_video_with_speech: transcribe, analyse pitch, classify, store
process_video_with_speech_transcribe ==
    /\ impl = VideoCtl
    /\ UNCHANGED side_vars
    /\ pc = "transcribe"
    /\ \E t \in transcribe_with_timestamps, fault \in BOOLEAN,
          handler_fault \in BOOLEAN :
          LET failed == t.raised \/ classify_emotion_raises
              r == IF failed THEN [doc |-> collection, raised |-> TRUE]
                   ELSE update_video(collection,
                                     [transcription_segments |-> [i \in 1..t.total_segments |-> "segment"],
                                      pitch_analysis |-> "pitch",
                                      emotion_classification |-> "emotion",
                                      transcription_status |-> "completed"], fault)
              e == IF t.raised THEN t.error
                   ELSE IF classify_emotion_raises THEN TypeError ELSE StoreError
              h == speech_except(r.doc, e, handler_fault)
          IN  IF ~r.raised
              THEN /\ collection' = r.doc
                   /\ pc' = "done"
                   /\ speech_result' = [success |-> TRUE,
                                        total_segments |-> t.total_segments]
                   /\ UNCHANGED <<exc, store_faulted>>
              ELSE /\ collection' = h.doc
                   /\ pc' = Continue(h, "done")
                   /\ exc' = Caught(h)
                   /\ speech_result' = [success |-> FALSE, error |-> e]
                   /\ store_faulted' = (store_faulted \/ ~failed \/ h.raised)
    /\ UNCHANGED <<impl, mongo_connected, video_database, face_result,
                   aggregation, poll>>

\* process_video_with_speech: except Exception as e
process_video_with_speech_except ==
    /\ impl = VideoCtl
    /\ UNCHANGED side_vars
    /\ pc = "except"
    /\ \E fault \in BOOLEAN :
          LET r == update_video(collection,
                                [status |-> "failed",
                                 transcription_status |-> "failed",
                                 transcription_error |-> exc], fault)
          IN  /\ collection' = r.doc
              /\ pc' = IF r.raised THEN "raised" ELSE "done"
              /\ store_faulted' = (store_faulted \/ fault)
    /\ UNCHANGED <<impl, mongo_connected, video_database, face_result,
                   speech_result, exc, aggregation, poll>>

\* the frame_interval argument of reprocess_video: 0 stands for the absent
\* parameter (any falsy value skips the update), 15 for a given interval
FrameIntervals == {0, 15}

\* positions at which no background job of the video is running
Ended == {"done", "raised"}

\* VideoController.reprocess_video, called when the previous job has ended:
\* optional frame_interval update, status back to processing, the full job
\* enqueued again (cleanup_video_data only touches the frames collection)
reprocess_video ==
    /\ impl = VideoCtl
    /\ UNCHANGED side_vars
    /\ pc \in Ended
    /\ \E interval \in FrameIntervals, read_fault \in BOOLEAN,
          interval_fault \in BOOLEAN, fault \in BOOLEAN :
          LET g == get_video(collection, read_fault)
              a == IF interval # 0
                   THEN update_video(collection,
                                     [frame_interval |-> interval],
                                     interval_fault)
                   ELSE [doc |-> collection, raised |-> FALSE]
              b == update_video(a.doc, [status |-> "processing"], fault)
          IN  IF g.raised \/ g.doc = NoRec
              THEN /\ store_faulted' = (store_faulted \/ read_fault)
                   /\ UNCHANGED <<collection, pc, face_result, speech_result, exc>>
              ELSE IF a.raised
              THEN /\ store_faulted' = TRUE
                   /\ UNCHANGED <<collection, pc, face_result, speech_result, exc>>
              ELSE IF b.raised
              THEN /\ collection' = a.doc
                   /\ store_faulted' = TRUE
                   /\ UNCHANGED <<pc, face_result, speech_result, exc>>
              ELSE /\ collection' = b.doc
                   /\ pc' = "queued"
                   /\ face_result' = NoRec
                   /\ speech_result' = NoRec
                   /\ exc' = None
                   /\ UNCHANGED store_faulted
    /\ UNCHANGED <<impl, mongo_connected, video_database, aggregation, poll>>

\* VideoController.transcribe_existing_video, called when the previous job
\* has ended: reset the transcription fields, enqueue process_speech_only
transcribe_existing_video ==
    /\ impl = VideoCtl
    /\ UNCHANGED side_vars
    /\ pc \in Ended
    /\ \E read_fault \in BOOLEAN, fault \in BOOLEAN :
          LET g == get_video(collection, read_fault)
              r == update_video(collection,
                                [transcription_status |-> "pending",
                                 transcription_error |-> None], fault)
          IN  IF g.raised \/ g.doc = NoRec
              THEN /\ store_faulted' = (store_faulted \/ read_fault)
                   /\ UNCHANGED <<collection, pc, face_result, speech_result, exc>>
              ELSE IF r.raised
              THEN /\ store_faulted' = TRUE
                   /\ UNCHANGED <<collection, pc, face_result, speech_result, exc>>
              ELSE /\ collection' = r.doc
                   /\ pc' = "speech_only_queued"
                   /\ face_result' = NoRec
                   /\ speech_result' = NoRec
                   /\ exc' = None
                   /\ UNCHANGED store_faulted
    /\ UNCHANGED <<impl, mongo_connected, video_database, aggregation, poll>>

\* where process_speech_only goes when its except clause has run: the
\* clause is the job's outermost handler, so an update that raises in it
\* leaves the job
Handled(h) == IF h.raised THEN "raised" ELSE "done"

\* process_speech_only: "Update status"
process_speech_only_start ==
    /\ impl = VideoCtl
    /\ UNCHANGED side_vars
    /\ pc = "speech_only_queued"
    /\ \E fault \in BOOLEAN, handler_fault \in BOOLEAN :
          LET r == update_video(collection,
                                [transcription_status |-> "processing"], fault)
              h == speech_except(r.doc, StoreError, handler_fault)
          IN  IF ~r.raised
              THEN /\ collection' = r.doc
                   /\ pc' = "speech_only_audio"
                   /\ UNCHANGED <<exc, speech_result, store_faulted>>
              ELSE /\ collection' = h.doc
                   /\ pc' = Handled(h)
                   /\ exc' = StoreError
                   /\ speech_result' = [success |-> FALSE, error |-> StoreError]
                   /\ store_faulted' = TRUE
    /\ UNCHANGED <<impl, mongo_connected, video_database, face_result,
                   aggregation, poll>>

\* process_speech_only: extract the audio, store its path
process_speech_only_audio ==
    /\ impl = VideoCtl
    /\ UNCHANGED side_vars
    /\ pc = "speech_only_audio"
    /\ \E a \in extract_audio, fault \in BOOLEAN, handler_fault \in BOOLEAN :
          LET r == IF a.raised THEN [doc |-> collection, raised |-> TRUE]
                   ELSE update_video(collection,
                                     [audio_file_path |-> a.audio_path], fault)
              e == IF a.raised THEN a.error ELSE StoreError
              h == speech_except(r.doc, e, handler_fault)
          IN  IF ~r.raised
              THEN /\ collection' = r.doc
                   /\ pc' = "speech_only_transcribe"
                   /\ UNCHANGED <<exc, speech_result, store_faulted>>
              ELSE /\ collection' = h.doc
                   /\ pc' = Handled(h)
                   /\ exc' = e
                   /\ speech_result' = [success |-> FALSE, error |-> e]
                   /\ store_faulted' = (store_faulted \/ ~a.raised \/ h.raised)
    /\ UNCHANGED <<impl, mongo_connected, video_database, face_result,
                   aggregation, poll>>

\* process_speech_only: transcribe, analyse pitch, classify, store
process_speech_only_transcribe ==
    /\ impl = VideoCtl
    /\ UNCHANGED side_vars
    /\ pc = "speech_only_transcribe"
    /\ \E t \in transcribe_with_timestamps, fault \in BOOLEAN,
          handler_fault \in BOOLEAN :
          LET failed == t.raised \/ classify_emotion_raises
              r == IF failed THEN [doc |-> collection, raised |-> TRUE]
                   ELSE update_video(collection,
                                     [transcription_segments |-> [i \in 1..t.total_segments |-> "segment"],
                                      pitch_analysis |-> "pitch",
                                      emotion_classification |-> "emotion",
                                      transcription_status |-> "completed"], fault)
              e == IF t.raised THEN t.error
                   ELSE IF classify_emotion_raises THEN TypeError ELSE StoreError
              h == speech_except(r.doc, e, handler_fault)
          IN  IF ~r.raised
              THEN /\ collection' = r.doc
                   /\ pc' = "done"
                   /\ speech_result' = [success |-> TRUE,
                                        total_segments |-> t.total_segments]
                   /\ UNCHANGED <<exc, store_faulted>>
              ELSE /\ collection' = h.doc
                   /\ pc' = Handled(h)
                   /\ exc' = e
                   /\ speech_result' = [success |-> FALSE, error |-> e]
                   /\ store_faulted' = (store_faulted \/ ~failed \/ h.raised)
    /\ UNCHANGED <<impl, mongo_connected, video_database, face_result,
                   aggregation, poll>>

\* VideoController.get_video_status
VideoController_get_video_status ==
    /\ impl = VideoCtl
    /\ UNCHANGED side_vars
    /\ pc # "idle"
    /\ \E fault \in BOOLEAN :
          LET g == get_video(collection, fault)
          IN  poll' = IF g.raised THEN [code |-> 500]
                      ELSE IF g.doc = NoRec THEN [code |-> 404]
                      ELSE [code |-> 200,
                            status |-> g.doc["status"],
                            transcription_status |-> g.doc["transcription_status"],
                            transcription_error |-> g.doc["transcription_error"]]
    /\ UNCHANGED <<impl, mongo_connected, collection, video_database, pc,
                   face_result, speech_result, exc, aggregation, store_faulted>>

Next ==
    \/ upload_video
    \/ process_video_complete_start
    \/ process_video_complete_face
    \/ process_video_complete_speech
    \/ process_video_complete_aggregate
    \/ process_video_complete_except
    \/ get_video_status
    \/ get_transcription
    \/ get_frames_info
    \/ VideoController_upload_video
    \/ process_video_with_speech_start
    \/ process_video_async_start
    \/ process_video_async
    \/ process_video_with_speech_audio
    \/ process_video_with_speech_transcribe
    \/ process_video_with_speech_except
    \/ reprocess_video
    \/ transcribe_existing_video
    \/ process_speech_only_start
    \/ process_speech_only_audio
    \/ process_speech_only_transcribe
    \/ VideoController_get_video_status

Spec == Init /\ [][Next]_vars

(***************************************************************************)
(* The confidence scoring on its own: Whisper has returned a list of       *)
(* segments, extract_and_transcribe_speech builds the result from it.      *)
(***************************************************************************)
\* the segments' avg_logprob values of the lists longer than one
CoarseLogProbs == {0, -50, -400, -900, -2600}

ScorerInputs ==
    {<<n>> : n \in (0 - MaxDepth)..0}
        \cup UNION {[1..n -> CoarseLogProbs] : n \in 0..MaxSegments}

InitScorer ==
    /\ impl = CompleteApi
    /\ mongo_connected = FALSE
    /\ collection = NoRec
    /\ video_database = NoRec
    /\ pc = "idle"
    /\ face_result = NoRec
    /\ speech_result = NoRec
    /\ exc = None
    /\ aggregation = NoRec
    /\ poll = NoRec
    /\ store_faulted = FALSE
    /\ confidence_scores \in ScorerInputs
    /\ scored = NoRec
    /\ SamplerIdle
    /\ CropIdle
    /\ PitchIdle
    /\ WhisperIdle
    /\ TwoIdle
    /\ JobsIdle
    /\ UploadIdle
    /\ BackendsIdle

\* the loop over result['segments'] and the overall confidence after it
score_segments ==
    /\ scored = NoRec
    /\ scored' = transcription_result(confidence_scores)
    /\ UNCHANGED <<pipeline_vars, confidence_scores, other_than_scorer>>

NextScorer == score_segments

SpecScorer == InitScorer /\ [][NextScorer]_vars

(***************************************************************************)
(* The frame sampling loop on its own: one step per cap.read(), then (in   *)
(* VideoFaceExtractorService) one step per frame document of process_faces.*)
(* The detector's answer for a frame is an input of the step that asks it. *)
(***************************************************************************)
\* most boxes the detector returns for one frame
MaxBoxes == 2
\* the videos explored have at most MaxSamples sampled frames
MaxSamples == 3

\* frame_interval = 30 in extract_faces; the default argument of extract_frames
DefaultFrameInterval == 30

\* the intervals explored: extract_faces fixes its own, extract_frames
\* takes it as an argument
SamplerIntervals ==
    IF impl \in NestedImpls THEN {DefaultFrameInterval}
    ELSE {1, 2, DefaultFrameInterval}

InitSampler ==
    /\ impl \in Impls
    /\ mongo_connected = (impl # CompleteApi)
    /\ collection = NoRec
    /\ video_database = NoRec
    /\ pc = "extract"
    /\ face_result = NoRec
    /\ speech_result = NoRec
    /\ exc = None
    /\ aggregation = NoRec
    /\ poll = NoRec
    /\ store_faulted = FALSE
    /\ ScorerIdle
    /\ CropIdle
    /\ PitchIdle
    /\ WhisperIdle
    /\ TwoIdle
    /\ JobsIdle
    /\ UploadIdle
    /\ BackendsIdle
    /\ frame_interval \in SamplerIntervals
    /\ total_frames \in 0..(frame_interval * MaxSamples)
    /\ frames_processed = 0
    /\ total_processed = 0
    /\ faces_found = 0
    /\ saved_frames = <<>>
    /\ saved_crops = <<>>
    /\ inspected = <<>>
    /\ boxes_seen = <<>>

\* what the sampling steps leave alone
sampler_frame == <<impl, mongo_connected, collection, video_database,
                   speech_result, aggregation, poll, store_faulted,
                   other_than_sampler, total_frames, frame_interval>>

sampled_last_of_interval(frame_count, interval) ==
    frame_count % interval = interval - 1
\* if frames_processed % frame_interval == 0
sampled(frame_count, interval) == frame_count % interval = 0

\* face_{frames_processed}_{i}.jpg for i, (x, y, w, h) in enumerate(faces)
crops(frame_count, faces) == [i \in 1..faces |-> <<frame_count, i - 1>>]

\* extract_faces: one iteration of while True that decodes a frame
extract_faces_frame ==
    /\ impl \in NestedImpls
    /\ pc = "extract"
    /\ frames_processed < total_frames
    /\ IF sampled(frames_processed, frame_interval)
       THEN \E faces \in 0..MaxBoxes :
              /\ inspected' = Append(inspected, frames_processed)
              /\ boxes_seen' = Append(boxes_seen, faces)
              /\ IF faces > 0
                 THEN /\ faces_found' = faces_found + faces
                      /\ saved_frames' = Append(saved_frames, frames_processed)
                      /\ saved_crops' =
                           saved_crops \o crops(frames_processed, faces)
                 ELSE UNCHANGED <<faces_found, saved_frames, saved_crops>>
       ELSE UNCHANGED <<inspected, boxes_seen, faces_found, saved_frames,
                        saved_crops>>
    /\ frames_processed' = frames_processed + 1
    /\ UNCHANGED <<sampler_frame, pc, face_result, exc, total_processed>>

\* extract_faces: ret is false, the loop breaks and the result is returned
extract_faces_return ==
    /\ impl \in NestedImpls
    /\ pc = "extract"
    /\ frames_processed = total_frames
    /\ face_result' = [success |-> TRUE,
                       total_frames |-> total_frames,
                       processed_frames |-> frames_processed,
                       faces_detected |-> faces_found,
                       frames_dir |-> "frames"]
    /\ pc' = "extracted"
    /\ UNCHANGED <<sampler_frame, exc, frames_processed, total_processed,
                   faces_found, saved_frames, saved_crops, inspected,
                   boxes_seen>>

\* extract_faces: decoding or detection raises inside the loop
extract_faces_raise ==
    /\ impl \in NestedImpls
    /\ pc = "extract"
    /\ frames_processed < total_frames
    /\ exc' = FaceError
    /\ face_result' = [success |-> FALSE, error |-> FaceError]
    /\ pc' = "extracted"
    /\ UNCHANGED <<sampler_frame, frames_processed, total_processed,
                   faces_found, saved_frames, saved_crops, inspected,
                   boxes_seen>>

\* extract_frames: one iteration of while cap.isOpened() that decodes a frame
extract_frames_frame ==
    /\ impl = VideoCtl
    /\ pc = "extract"
    /\ frames_processed < total_frames
    /\ saved_frames' = IF sampled(frames_processed, frame_interval)
                       THEN Append(saved_frames, frames_processed)
                       ELSE saved_frames
    /\ frames_processed' = frames_processed + 1
    /\ UNCHANGED <<sampler_frame, pc, face_result, exc, total_processed,
                   faces_found, saved_crops, inspected, boxes_seen>>

\* extract_frames returns saved_count; process_video_async fails the video
\* if it is 0 and goes on to process_faces otherwise
extract_frames_return ==
    /\ impl = VideoCtl
    /\ pc = "extract"
    /\ frames_processed = total_frames
    /\ IF Len(saved_frames) = 0
       THEN /\ face_result' = [status |-> "failed", error_message |-> NoFrames]
            /\ pc' = "extracted"
       ELSE /\ pc' = "faces"
            /\ UNCHANGED face_result
    /\ UNCHANGED <<sampler_frame, exc, frames_processed, total_processed,
                   faces_found, saved_frames, saved_crops, inspected,
                   boxes_seen>>

\* extract_frames: decoding raises inside the loop; the handler returns 0
extract_frames_raise ==
    /\ impl = VideoCtl
    /\ pc = "extract"
    /\ frames_processed < total_frames
    /\ exc' = FaceError
    /\ face_result' = [status |-> "failed", error_message |-> NoFrames]
    /\ pc' = "extracted"
    /\ UNCHANGED <<sampler_frame, frames_processed, total_processed,
                   faces_found, saved_frames, saved_crops, inspected,
                   boxes_seen>>

\* process_faces: one frame document; extract_face crops faces[0] only and
\* returns False when the detector raises
process_faces_frame ==
    /\ impl = VideoCtl
    /\ pc = "faces"
    /\ total_processed < Len(saved_frames)
    /\ LET frame_number == saved_frames[total_processed + 1]
       IN  /\ inspected' = Append(inspected, frame_number)
           /\ \/ \E faces \in 0..MaxBoxes :
                   /\ boxes_seen' = Append(boxes_seen, faces)
                   /\ IF faces > 0
                      THEN /\ faces_found' = faces_found + 1
                           /\ saved_crops' =
                                Append(saved_crops, <<frame_number, 0>>)
                      ELSE UNCHANGED <<faces_found, saved_crops>>
                   /\ UNCHANGED exc
              \/ /\ exc' = FaceError
                 /\ UNCHANGED <<boxes_seen, faces_found, saved_crops>>
    /\ total_processed' = total_processed + 1
    /\ UNCHANGED <<sampler_frame, pc, face_result, frames_processed,
                   saved_frames>>

\* process_faces returns its counters; process_video_async completes the video
process_faces_return ==
    /\ impl = VideoCtl
    /\ pc = "faces"
    /\ total_processed = Len(saved_frames)
    /\ face_result' = [status |-> "completed",
                       frames_extracted |-> Len(saved_frames),
                       faces_found |-> faces_found]
    /\ pc' = "extracted"
    /\ UNCHANGED <<sampler_frame, exc, frames_processed, total_processed,
                   faces_found, saved_frames, saved_crops, inspected,
                   boxes_seen>>

\* process_faces: the frames collection raises inside the loop; the handler
\* returns zero counters
process_faces_raise ==
    /\ impl = VideoCtl
    /\ pc = "faces"
    /\ total_processed < Len(saved_frames)
    /\ exc' = IF exc = None THEN StoreError ELSE exc
    /\ face_result' = [status |-> "completed",
                       frames_extracted |-> Len(saved_frames),
                       faces_found |-> 0]
    /\ pc' = "extracted"
    /\ UNCHANGED <<sampler_frame, frames_processed, total_processed,
                   faces_found, saved_frames, saved_crops, inspected,
                   boxes_seen>>

NextSampler ==
    \/ extract_faces_frame
    \/ extract_faces_return
    \/ extract_faces_raise
    \/ extract_frames_frame
    \/ extract_frames_return
    \/ extract_frames_raise
    \/ process_faces_frame
    \/ process_faces_return
    \/ process_faces_raise

SpecSampler == InitSampler /\ [][NextSampler]_vars

(***************************************************************************)
(* extract_face on its own: the margin added around the first box          *)
(***************************************************************************)
\* widest and highest image explored; one side of the image ranges up to
\* MaxSide, the other up to MaxShortSide
MaxSide == 44
MaxShortSide == 2

margin == 20

max(a, b) == IF a > b THEN a ELSE b
min(a, b) == IF a < b THEN a ELSE b

\* the boxes the detector can return on an image: inside it, not empty
Boxes(shape) ==
    {[x |-> x, y |-> y, w |-> w, h |-> h] :
        x \in 0..(shape.width - 1), y \in 0..(shape.height - 1),
        w \in 1..shape.width, h \in 1..shape.height}

Inside(box, shape) ==
    /\ 0 <= box.x /\ box.x + box.w <= shape.width
    /\ 0 <= box.y /\ box.y + box.h <= shape.height

InitCrop ==
    /\ impl = VideoCtl
    /\ mongo_connected = TRUE
    /\ collection = NoRec
    /\ video_database = NoRec
    /\ pc = "idle"
    /\ face_result = NoRec
    /\ speech_result = NoRec
    /\ exc = None
    /\ aggregation = NoRec
    /\ poll = NoRec
    /\ store_faulted = FALSE
    /\ ScorerIdle
    /\ SamplerIdle
    /\ PitchIdle
    /\ WhisperIdle
    /\ TwoIdle
    /\ JobsIdle
    /\ UploadIdle
    /\ BackendsIdle
    /\ img_shape \in
         {[height |-> a, width |-> b] : a \in 1..MaxShortSide, b \in 1..MaxSide}
            \cup {[height |-> a, width |-> b] : a \in 1..MaxSide, b \in 1..MaxShortSide}
    /\ face_box \in {NoRec} \cup {b \in Boxes(img_shape) : Inside(b, img_shape)}
    /\ crop_rect = NoRec

\* a plausible slip: the width and height are not clamped to the image
add_margin_unclamped(box, shape) ==
    LET x == max(box.x - margin, 0)
        y == max(box.y - margin, 0)
    IN  [x |-> x, y |-> y, w |-> box.w + 2 * margin, h |-> box.h + 2 * margin]

\* x = max(x - margin, 0) ... h = min(h + 2*margin, img.shape[0] - y)
add_margin(box, shape) ==
    LET x == max(box.x - margin, 0)
        y == max(box.y - margin, 0)
        w == min(box.w + 2 * margin, shape.width - x)
        h == min(box.h + 2 * margin, shape.height - y)
    IN  [x |-> x, y |-> y, w |-> w, h |-> h]

\* extract_face: no face returns False, otherwise the crop around faces[0]
\* is saved and True is returned
extract_face ==
    /\ img_shape # NoRec
    /\ crop_rect = NoRec
    /\ crop_rect' = IF face_box = NoRec THEN [found |-> FALSE]
                    ELSE [found |-> TRUE] @@ add_margin(face_box, img_shape)
    /\ UNCHANGED <<pipeline_vars, other_than_crop, img_shape, face_box>>

NextCrop == extract_face

SpecCrop == InitCrop /\ [][NextCrop]_vars

(***************************************************************************)
(* analyze_pitch on its own.  Pitches are whole Hz; the mean of the voiced *)
(* samples is the rational num / den; average_pitch is held in hundredths  *)
(* (round(avg_pitch, 2)) and pitch_std by its square, the variance.        *)
(***************************************************************************)
\* highest pitch of the one-sample tracks explored
MaxPitch == 300
\* longest pitch track explored
MaxTrack == 3

\* the samples of the tracks longer than one
CoarsePitches == {0, 139, 140, 199, 200, 249, 250, 260}

PitchTracks ==
    {<<f>> : f \in 0..MaxPitch}
        \cup UNION {[1..n -> CoarsePitches] : n \in 0..MaxTrack}

PitchError == "pitch error"

InitPitch ==
    /\ impl = VideoCtl
    /\ mongo_connected = TRUE
    /\ collection = NoRec
    /\ video_database = NoRec
    /\ pc = "idle"
    /\ face_result = NoRec
    /\ speech_result = NoRec
    /\ exc = None
    /\ aggregation = NoRec
    /\ poll = NoRec
    /\ store_faulted = FALSE
    /\ ScorerIdle
    /\ SamplerIdle
    /\ CropIdle
    /\ WhisperIdle
    /\ TwoIdle
    /\ JobsIdle
    /\ UploadIdle
    /\ BackendsIdle
    /\ pitch_values \in PitchTracks
    /\ pitch_raises \in BOOLEAN
    /\ pitch_result = NoRec

\* a plausible slip: the thresholds are compared with <= instead of <
classify_emotion_inclusive(avg_pitch) ==
    IF avg_pitch.num <= 140 * avg_pitch.den THEN "Calm / Deep Voice"
    ELSE IF avg_pitch.num <= 200 * avg_pitch.den THEN "Neutral / Confident"
    ELSE IF avg_pitch.num <= 250 * avg_pitch.den THEN "Animated / Engaged"
    ELSE "Excited / High-pitched / Nervous"

\* if avg_pitch < 140 ... elif < 200 ... elif < 250 ... else
classify_emotion(avg_pitch) ==
    IF avg_pitch.num < 140 * avg_pitch.den THEN "Calm / Deep Voice"
    ELSE IF avg_pitch.num < 200 * avg_pitch.den THEN "Neutral / Confident"
    ELSE IF avg_pitch.num < 250 * avg_pitch.den THEN "Animated / Engaged"
    ELSE "Excited / High-pitched / Nervous"

\* pitch_values[pitch_values > 0]
voiced_pitch(values) == SelectSeq(values, LAMBDA f : f > 0)

np_mean(values) == [num |-> sum(values), den |-> Len(values)]

np_min(values) ==
    CHOOSE f \in {values[i] : i \in 1..Len(values)} :
        \A i \in 1..Len(values) : f <= values[i]

np_max(values) ==
    CHOOSE f \in {values[i] : i \in 1..Len(values)} :
        \A i \in 1..Len(values) : f >= values[i]

\* the square of np.std: mean of the squares minus the square of the mean
np_var(values) ==
    [num |-> Len(values) * sum([i \in 1..Len(values) |-> values[i] * values[i]])
                - sum(values) * sum(values),
     den |-> Len(values) * Len(values)]

\* the body of the try block: the statistics of the voiced samples
pitch_statistics(values) ==
    IF Len(voiced_pitch(values)) = 0
    THEN [average_pitch |-> 0, min_pitch |-> 0, max_pitch |-> 0,
          pitch_std |-> [num |-> 0, den |-> 1],
          emotion |-> "Unknown - No voice detected",
          pitch_analysis |-> [text |-> "No voiced segments detected"]]
    ELSE LET voiced == voiced_pitch(values)
             avg_pitch == np_mean(voiced)
             emotion == classify_emotion(avg_pitch)
             rounded == RoundHalfEven(100 * avg_pitch.num, avg_pitch.den)
         IN  [average_pitch |-> rounded,
              min_pitch |-> 100 * np_min(voiced),
              max_pitch |-> 100 * np_max(voiced),
              pitch_std |-> np_var(voiced),
              emotion |-> emotion,
              pitch_analysis |-> [text |-> "Average pitch", hz |-> rounded,
                                  emotion |-> emotion]]

\* a plausible slip: the handler raises again instead of returning
analyze_pitch_reraises(values, raises) ==
    IF raises THEN [raised |-> PitchError] ELSE pitch_statistics(values)

\* the whole body is inside try / except Exception, and the handler returns
analyze_pitch(values, raises) ==
    IF raises
    THEN [average_pitch |-> 0, min_pitch |-> 0, max_pitch |-> 0,
          pitch_std |-> [num |-> 0, den |-> 1],
          emotion |-> "Error in analysis",
          pitch_analysis |-> [text |-> "Error", message |-> PitchError]]
    ELSE pitch_statistics(values)

\* one call of analyze_pitch on the audio file
call_analyze_pitch ==
    /\ pitch_values \in PitchTracks
    /\ pitch_result = NoRec
    /\ pitch_result' = analyze_pitch(pitch_values, pitch_raises)
    /\ UNCHANGED <<pipeline_vars, other_than_pitch, pitch_values, pitch_raises>>

NextPitch == call_analyze_pitch

SpecPitch == InitPitch /\ [][NextPitch]_vars

(***************************************************************************)
(* Loading of the transcription model in one worker process.  A service    *)
(* instance is a position of whisper_model: position 1 is the instance     *)
(* created at import time (processor, video_controller), the others are    *)
(* created by requests.  The stage calls are synchronous, so a job's       *)
(* check-and-load is one step.                                             *)
(***************************************************************************)
\* most requests accepted in a behaviour
MaxRequests == 3

InitWhisper ==
    /\ impl \in Impls
    /\ mongo_connected = (impl # CompleteApi)
    /\ collection = NoRec
    /\ video_database = NoRec
    /\ pc = "idle"
    /\ face_result = NoRec
    /\ speech_result = NoRec
    /\ exc = None
    /\ aggregation = NoRec
    /\ poll = NoRec
    /\ store_faulted = FALSE
    /\ ScorerIdle
    /\ SamplerIdle
    /\ CropIdle
    /\ PitchIdle
    /\ WhisperIdle
    /\ TwoIdle
    /\ JobsIdle
    /\ UploadIdle
    /\ BackendsIdle

\* upload_video / reprocess_video: the job is a method of the instance
\* created at import time
request_full_run ==
    /\ whisper_requests < MaxRequests
    /\ whisper_requests' = whisper_requests + 1
    /\ whisper_jobs' = Append(whisper_jobs, 1)
    /\ UNCHANGED <<pipeline_vars, other_than_whisper, whisper_model,
                   whisper_loads>>

\* routes/video.py transcribe_only: controller = VideoController() makes a
\* new SpeechTranscriptionService, whose whisper_model is None; the job is
\* a method of that controller
transcribe_only ==
    /\ impl = VideoCtl
    /\ whisper_requests < MaxRequests
    /\ whisper_requests' = whisper_requests + 1
    /\ whisper_model' = Append(whisper_model, FALSE)
    /\ whisper_jobs' = Append(whisper_jobs, Len(whisper_model) + 1)
    /\ UNCHANGED <<pipeline_vars, other_than_whisper, whisper_loads>>

\* the sequence without its i-th element
Without(seq, i) == SubSeq(seq, 1, i - 1) \o SubSeq(seq, i + 1, Len(seq))

\* get_whisper_model / load_whisper_model in the job's speech stage: load
\* if the instance's model is None, then the job goes on and ends
load_whisper_model ==
    /\ \E i \in 1..Len(whisper_jobs) :
          LET instance == whisper_jobs[i]
          IN  /\ IF ~whisper_model[instance]
                 THEN /\ whisper_model' =
                           [whisper_model EXCEPT ![instance] = TRUE]
                      /\ whisper_loads' = whisper_loads + 1
                 ELSE UNCHANGED <<whisper_model, whisper_loads>>
              /\ whisper_jobs' = Without(whisper_jobs, i)
    /\ UNCHANGED <<pipeline_vars, other_than_whisper, whisper_requests>>

\* the job ends before it needs the model (audio extraction raised), or
\* whisper.load_model raises and the model stays None
job_ends_without_model ==
    /\ \E i \in 1..Len(whisper_jobs) :
          whisper_jobs' = Without(whisper_jobs, i)
    /\ UNCHANGED <<pipeline_vars, other_than_whisper, whisper_model,
                   whisper_loads, whisper_requests>>

NextWhisper ==
    \/ request_full_run
    \/ transcribe_only
    \/ load_whisper_model
    \/ job_ends_without_model

SpecWhisper == InitWhisper /\ [][NextWhisper]_vars

(***************************************************************************)
(* complete_video_api with two videos: the collection holds one document   *)
(* per video, the helpers select by {"video_id": video_id} and by          *)
(* video_database[video_id].  two_alone follows, for each video, the       *)
(* one-video helpers of above applied to the same updates and faults.      *)
(***************************************************************************)
\* position of the first document of docs whose video_id is video_id (0: none)
first_match(docs, video_id) ==
    IF \E i \in 1..Len(docs) : docs[i].video_id = video_id
    THEN CHOOSE i \in 1..Len(docs) :
            /\ docs[i].video_id = video_id
            /\ \A j \in 1..(i - 1) : docs[j].video_id # video_id
    ELSE 0

\* collection.find_one({"video_id": video_id})
find_one(docs, video_id) ==
    IF first_match(docs, video_id) = 0 THEN NoRec
    ELSE docs[first_match(docs, video_id)]

\* a plausible slip: the filter is empty, the first document is updated
update_one_unfiltered(docs, video_id, update_data) ==
    IF docs = <<>> THEN docs
    ELSE [docs EXCEPT ![1] = mongo_set(docs[1], update_data)]

\* collection.update_one({"video_id": video_id}, {"$set": update_data})
update_one(docs, video_id, update_data) ==
    IF first_match(docs, video_id) = 0 THEN docs
    ELSE [docs EXCEPT ![first_match(docs, video_id)] =
                          mongo_set(docs[first_match(docs, video_id)], update_data)]

\* save_video_to_db with the collection and the dict as they are
two_save_video_to_db(new_video, mongo_fails) ==
    IF mongo_connected /\ ~mongo_fails
    THEN [collection |-> Append(two_collection, new_video),
          video_database |-> two_database]
    ELSE [collection |-> two_collection,
          video_database |->
             [two_database EXCEPT ![new_video.video_id] = new_video]]

\* get_video_from_db
two_get_video_from_db(video_id, mongo_fails) ==
    IF mongo_connected /\ ~mongo_fails /\ find_one(two_collection, video_id) # NoRec
    THEN find_one(two_collection, video_id)
    ELSE two_database[video_id]

\* update_video_in_db: modified_count > 0, or the in-memory fallback
two_update_video_in_db(video_id, update_data, mongo_fails) ==
    IF /\ mongo_connected /\ ~mongo_fails
       /\ (update_one(two_collection, video_id, update_data) # two_collection
             \/ (find_one(two_collection, video_id) # NoRec /\ Stamped(update_data)))
    THEN [collection |-> update_one(two_collection, video_id, update_data),
          video_database |-> two_database]
    ELSE IF two_database[video_id] # NoRec
         THEN [collection |-> two_collection,
               video_database |->
                  [two_database EXCEPT
                      ![video_id] = dict_update(two_database[video_id], update_data)]]
         ELSE [collection |-> two_collection, video_database |-> two_database]

InitTwo ==
    /\ impl = CompleteApi
    /\ mongo_connected \in BOOLEAN
    /\ collection = NoRec
    /\ video_database = NoRec
    /\ pc = "idle"
    /\ face_result = NoRec
    /\ speech_result = NoRec
    /\ exc = None
    /\ aggregation = NoRec
    /\ poll = NoRec
    /\ store_faulted = FALSE
    /\ ScorerIdle
    /\ SamplerIdle
    /\ CropIdle
    /\ PitchIdle
    /\ WhisperIdle
    /\ TwoIdle
    /\ JobsIdle
    /\ UploadIdle
    /\ BackendsIdle

\* what one video's run on its own does with an update
alone_update(video_id, update_data, fault) ==
    LET r == update_video_in_db(two_alone[video_id].collection,
                                two_alone[video_id].video_database,
                                update_data, fault)
    IN  [two_alone EXCEPT ![video_id] =
            [collection |-> r.collection, video_database |-> r.video_database]]

\* one store update of the job of video_id, then the job moves to next
two_step(video_id, update_data, fault, next) ==
    LET r == two_update_video_in_db(video_id, update_data, fault)
    IN  /\ two_collection' = r.collection
        /\ two_database' = r.video_database
        /\ two_alone' = alone_update(video_id, update_data, fault)
        /\ two_pc' = [two_pc EXCEPT ![video_id] = next]
        /\ UNCHANGED <<pipeline_vars, other_than_two>>

\* POST /upload: each upload gets a video_id of its own (uuid4)
two_upload_video ==
    \E video_id \in VideoIds, fault \in StoreFaults :
        LET uploaded == [video_record EXCEPT !.video_id = video_id]
            r == two_save_video_to_db(uploaded, fault)
            s == save_video_to_db(two_alone[video_id].collection,
                                  two_alone[video_id].video_database,
                                  uploaded, fault)
        IN  /\ two_pc[video_id] = "idle"
            /\ two_collection' = r.collection
            /\ two_database' = r.video_database
            /\ two_alone' = [two_alone EXCEPT ![video_id] = s]
            /\ two_pc' = [two_pc EXCEPT ![video_id] = "queued"]
            /\ UNCHANGED <<pipeline_vars, other_than_two>>

\* process_video_complete(video_id, ...): "Update status to processing"
two_process_video_complete_start ==
    \E video_id \in VideoIds, fault \in StoreFaults :
        /\ two_pc[video_id] = "queued"
        /\ two_step(video_id, processing_update, fault, "face")

\* process_video_complete(video_id, ...): the face stage and its update
two_process_video_complete_face ==
    \E video_id \in VideoIds, res \in extract_faces, fault \in StoreFaults :
        /\ two_pc[video_id] = "face"
        /\ two_step(video_id, face_data(res), fault, after_face(res))

\* process_video_complete(video_id, ...): the speech stage and its update
two_process_video_complete_speech ==
    \E video_id \in VideoIds, res \in extract_and_transcribe_speech,
       fault \in StoreFaults :
        /\ two_pc[video_id] = "speech"
        /\ two_step(video_id, speech_data(res), fault, "aggregate")

\* process_video_complete(video_id, ...): re-read the record of video_id,
\* write the final status
two_process_video_complete_aggregate ==
    \E video_id \in VideoIds, read_fault \in StoreFaults, fault \in StoreFaults :
        LET found == two_get_video_from_db(video_id, read_fault)
            own == get_video_from_db(two_alone[video_id].collection,
                                     two_alone[video_id].video_database,
                                     read_fault)
            status_of(doc) == overall_status(doc["face_extraction"]["status"],
                                          doc["speech_transcription"]["status"])
        IN  /\ two_pc[video_id] = "aggregate"
            /\ IF found = NoRec
               THEN /\ two_pc' = [two_pc EXCEPT ![video_id] = "done"]
                    /\ UNCHANGED <<two_collection, two_database>>
               ELSE LET r == two_update_video_in_db(
                                 video_id, final_update(status_of(found)), fault)
                    IN  /\ two_collection' = r.collection
                        /\ two_database' = r.video_database
                        /\ two_pc' = [two_pc EXCEPT ![video_id] = "done"]
            /\ two_alone' = IF own = NoRec THEN two_alone
                            ELSE alone_update(video_id,
                                              final_update(status_of(own)), fault)
            /\ UNCHANGED <<pipeline_vars, other_than_two>>

NextTwo ==
    \/ two_upload_video
    \/ two_process_video_complete_start
    \/ two_process_video_complete_face
    \/ two_process_video_complete_speech
    \/ two_process_video_complete_aggregate

SpecTwo == InitTwo /\ [][NextTwo]_vars

(***************************************************************************)
(* VideoController: the jobs of one video when requests arrive at any      *)
(* time.  Neither reprocess_video nor transcribe_existing_video looks for  *)
(* a job under way.  A job is a coroutine; a step runs it from one await   *)
(* to the next.  In extract_frames the awaits are the insert_one calls.    *)
(***************************************************************************)
\* most requests that enqueue a job in a behaviour
MaxRuns == 3
\* number of frames the uploaded video decodes to
JobFrames == 3

\* the frame_interval values reprocess requests carry
ReprocessIntervals == {1, 2}

InitJobs ==
    /\ impl = VideoCtl
    /\ mongo_connected = TRUE
    /\ collection = NoRec
    /\ video_database = NoRec
    /\ pc = "idle"
    /\ face_result = NoRec
    /\ speech_result = NoRec
    /\ exc = None
    /\ aggregation = NoRec
    /\ poll = NoRec
    /\ store_faulted = FALSE
    /\ ScorerIdle
    /\ SamplerIdle
    /\ CropIdle
    /\ PitchIdle
    /\ WhisperIdle
    /\ TwoIdle
    /\ JobsIdle
    /\ UploadIdle
    /\ BackendsIdle

\* background_tasks.add_task(self.process_video_with_speech, ...)
full_job(run, interval) ==
    [run |-> run, kind |-> "full", at |-> "queued",
     frame_interval |-> interval, frame_count |-> 0]

\* background_tasks.add_task(self.process_speech_only, ...)
speech_only_job(run) ==
    [run |-> run, kind |-> "speech_only", at |-> "queued",
     frame_interval |-> 0, frame_count |-> 0]

\* upload_video: the first request; the job runs with the default interval
jobs_upload_video ==
    /\ runs_started = 0
    /\ runs_started' = 1
    /\ jobs' = Append(jobs, full_job(1, DefaultFrameInterval))
    /\ UNCHANGED <<pipeline_vars, other_than_jobs, frames_collection,
                   reprocess_run, reprocess_interval>>

\* cleanup_video_data: frames_collection.delete_many({"video_id": video_id})
cleanup_video_data(frames) == <<>>

\* reprocess_video: clean up old data, enqueue a full job
jobs_reprocess_video ==
    /\ runs_started >= 1
    /\ runs_started < MaxRuns
    /\ \E interval \in ReprocessIntervals :
          /\ jobs' = Append(jobs, full_job(runs_started + 1, interval))
          /\ reprocess_interval' = interval
    /\ frames_collection' = cleanup_video_data(frames_collection)
    /\ runs_started' = runs_started + 1
    /\ reprocess_run' = runs_started + 1
    /\ UNCHANGED <<pipeline_vars, other_than_jobs>>

\* transcribe_existing_video: enqueue a speech-only job
jobs_transcribe_existing_video ==
    /\ runs_started >= 1
    /\ runs_started < MaxRuns
    /\ jobs' = Append(jobs, speech_only_job(runs_started + 1))
    /\ runs_started' = runs_started + 1
    /\ UNCHANGED <<pipeline_vars, other_than_jobs, frames_collection,
                   reprocess_run, reprocess_interval>>

\* the first index at or after frame_count that the sampler keeps
next_sampled(frame_count, interval) ==
    ((frame_count + interval - 1) \div interval) * interval

\* the job starts: its first await is the status update
job_starts ==
    /\ \E i \in 1..Len(jobs) :
          /\ jobs[i].at = "queued"
          /\ jobs' = [jobs EXCEPT ![i].at =
                         IF jobs[i].kind = "full" THEN "frames" ELSE "speech"]
    /\ UNCHANGED <<pipeline_vars, other_than_jobs, frames_collection,
                   runs_started, reprocess_run, reprocess_interval>>

\* extract_frames up to its next await: the frames up to the next sampled
\* one are read, its document is inserted; at end of stream the job goes on
\* to the speech stage
job_extract_frames ==
    /\ \E i \in 1..Len(jobs) :
          LET job == jobs[i]
              frame_number == next_sampled(job.frame_count, job.frame_interval)
          IN  /\ job.at = "frames"
              /\ IF frame_number < JobFrames
                 THEN /\ frames_collection' =
                           Append(frames_collection, frame_number)
                      /\ jobs' = [jobs EXCEPT ![i].frame_count = frame_number + 1]
                 ELSE /\ jobs' = [jobs EXCEPT ![i].at = "speech"]
                      /\ UNCHANGED frames_collection
    /\ UNCHANGED <<pipeline_vars, other_than_jobs, runs_started,
                   reprocess_run, reprocess_interval>>

\* the speech stage of the job runs and the job ends
job_ends ==
    /\ \E i \in 1..Len(jobs) :
          /\ jobs[i].at = "speech"
          /\ jobs' = Without(jobs, i)
    /\ UNCHANGED <<pipeline_vars, other_than_jobs, frames_collection,
                   runs_started, reprocess_run, reprocess_interval>>

NextJobs ==
    \/ jobs_upload_video
    \/ jobs_reprocess_video
    \/ jobs_transcribe_existing_video
    \/ job_starts
    \/ job_extract_frames
    \/ job_ends

SpecJobs == InitJobs /\ [][NextJobs]_vars

(***************************************************************************)
(* VideoController: one upload, its background job and a client that polls *)
(* the status endpoint (test_speech_api.py).  The event loop runs an       *)
(* enqueued job to its end and the client keeps polling, so every job step *)
(* and the poll are weakly fair; nothing obliges a client to upload.       *)
(***************************************************************************)
InitPoll ==
    /\ Init
    /\ impl = VideoCtl

\* the steps of the job that upload_video enqueues
process_video_with_speech ==
    \/ process_video_with_speech_start
    \/ process_video_async_start
    \/ process_video_async
    \/ process_video_with_speech_audio
    \/ process_video_with_speech_transcribe
    \/ process_video_with_speech_except

NextPoll ==
    \/ VideoController_upload_video
    \/ process_video_with_speech_start
    \/ process_video_async_start
    \/ process_video_async
    \/ process_video_with_speech_audio
    \/ process_video_with_speech_transcribe
    \/ process_video_with_speech_except
    \/ VideoController_get_video_status

SpecPoll ==
    /\ InitPoll
    /\ [][NextPoll]_vars
    /\ WF_vars(process_video_with_speech)
    /\ WF_vars(VideoController_get_video_status)

(***************************************************************************)
(* complete_video_api / CombinedVideoController: the upload of any file.   *)
(* The handler looks at the declared content type only; whether the file   *)
(* decodes shows when the stages open it.                                  *)
(***************************************************************************)
\* the files a client may send
UploadFiles == [content_type_video : BOOLEAN, decodable : BOOLEAN]

InitUpload ==
    /\ impl \in NestedImpls
    /\ mongo_connected \in BOOLEAN
    /\ collection = NoRec
    /\ video_database = NoRec
    /\ pc = "idle"
    /\ face_result = NoRec
    /\ speech_result = NoRec
    /\ exc = None
    /\ aggregation = NoRec
    /\ poll = NoRec
    /\ store_faulted = FALSE
    /\ ScorerIdle
    /\ SamplerIdle
    /\ CropIdle
    /\ PitchIdle
    /\ WhisperIdle
    /\ TwoIdle
    /\ JobsIdle
    /\ upload_file \in UploadFiles
    /\ upload_error = 0
    /\ BackendsIdle

\* file.content_type.startswith('video/')
content_type_accepted(file) == file.content_type_video

\* upload_video: "File must be a video"; the HTTPException(400) is raised
\* inside the handler's try block, whose except Exception turns it into 500
upload_video_rejected ==
    /\ impl \in NestedImpls
    /\ pc = "idle"
    /\ upload_error = 0
    /\ ~content_type_accepted(upload_file)
    /\ upload_error' = 500
    /\ UNCHANGED <<pipeline_vars, scorer_vars, sampler_vars, crop_vars, pitch_vars,
                   whisper_vars, two_vars, jobs_vars, upload_file,
                   store_calls, store_at, store_seen>>

\* upload_video past the validation: the record is created, the job enqueued
upload_video_accepted ==
    /\ upload_error = 0
    /\ content_type_accepted(upload_file)
    /\ upload_video

\* extract_faces on the uploaded file: cv2.VideoCapture does not raise on a
\* file it cannot decode, the first read fails and the loop ends at once
upload_extract_faces ==
    /\ process_video_complete_face
    /\ (upload_file.decodable
            \/ face_result' = [success |-> TRUE, faces_detected |-> 0,
                               frames_dir |-> "frames"])

\* extract_and_transcribe_speech on the uploaded file: VideoFileClip raises
\* on a file it cannot decode
upload_transcribe_speech ==
    /\ process_video_complete_speech
    /\ (upload_file.decodable
            \/ speech_result' = [success |-> FALSE, error |-> AudioError])

NextUpload ==
    \/ upload_video_rejected
    \/ upload_video_accepted
    \/ process_video_complete_start
    \/ upload_extract_faces
    \/ upload_transcribe_speech
    \/ process_video_complete_aggregate
    \/ process_video_complete_except

SpecUpload == InitUpload /\ [][NextUpload]_vars

(***************************************************************************)
(* complete_video_api: one sequence of store calls and reads, issued to a  *)
(* process that reached MongoDB at startup and then, after a restart       *)
(* without MongoDB, to the in-memory fallback.  No Mongo call raises.      *)
(***************************************************************************)
\* most calls after the record's creation
MaxCalls == 3

\* the calls of the pipeline and the reads of the endpoints
StoreCalls == {"processing", "face", "speech", "final",
               "status", "transcription", "frames"}

\* the update each pipeline call carries
store_update(call) ==
    IF call = "processing" THEN processing_update
    ELSE IF call = "face"
    THEN face_data([success |-> TRUE, faces_detected |-> 1, frames_dir |-> "frames"])
    ELSE IF call = "speech" THEN speech_data(transcription_result(<<-450>>))
    ELSE final_update("completed")

InitBackends ==
    /\ impl = CompleteApi
    /\ mongo_connected = TRUE
    /\ collection = NoRec
    /\ video_database = NoRec
    /\ pc = "idle"
    /\ face_result = NoRec
    /\ speech_result = NoRec
    /\ exc = None
    /\ aggregation = NoRec
    /\ poll = NoRec
    /\ store_faulted = FALSE
    /\ ScorerIdle
    /\ SamplerIdle
    /\ CropIdle
    /\ PitchIdle
    /\ WhisperIdle
    /\ TwoIdle
    /\ JobsIdle
    /\ UploadIdle
    /\ store_calls \in {<<"save">> \o calls :
                          calls \in UNION {[1..n -> StoreCalls] : n \in 1..MaxCalls}}
    /\ store_at = 1
    /\ store_seen = [connected |-> <<>>, fallback |-> <<>>]

\* the read is added to what the backend in use has returned
seen_with(response) ==
    IF mongo_connected
    THEN [store_seen EXCEPT !.connected = Append(@, response)]
    ELSE [store_seen EXCEPT !.fallback = Append(@, response)]

backends_frame ==
    UNCHANGED <<impl, pc, face_result, speech_result, exc, aggregation, poll,
                store_faulted, scorer_vars, sampler_vars, crop_vars, pitch_vars,
                whisper_vars, two_vars, jobs_vars, upload_file, upload_error,
                store_calls>>

\* upload_video: save_video_to_db(video_record)
backends_save ==
    /\ store_at <= Len(store_calls)
    /\ store_calls[store_at] = "save"
    /\ LET r == Save(video_record, FALSE)
       IN  /\ collection' = r.collection
           /\ video_database' = r.video_database
    /\ store_at' = store_at + 1
    /\ UNCHANGED <<mongo_connected, store_seen>>
    /\ backends_frame

\* process_video_complete: update_video_in_db(video_id, ...)
backends_update ==
    /\ store_at <= Len(store_calls)
    /\ store_calls[store_at] \in {"processing", "face", "speech", "final"}
    /\ LET r == Update(store_update(store_calls[store_at]), FALSE)
       IN  /\ collection' = r.collection
           /\ video_database' = r.video_database
    /\ store_at' = store_at + 1
    /\ UNCHANGED <<mongo_connected, store_seen>>
    /\ backends_frame

\* GET /status/{video_id}
backends_get_video_status ==
    /\ store_at <= Len(store_calls)
    /\ store_calls[store_at] = "status"
    /\ LET g == Get(FALSE)
       IN  store_seen' = seen_with(
               IF g.doc = NoRec THEN [code |-> 404]
               ELSE [code |-> 200,
                     status |-> g.doc["status"],
                     face_extraction |-> g.doc["face_extraction"],
                     speech_transcription |-> g.doc["speech_transcription"]])
    /\ store_at' = store_at + 1
    /\ UNCHANGED <<mongo_connected, collection, video_database>>
    /\ backends_frame

\* GET /transcription/{video_id} and GET /frames/{video_id}
backends_get_results ==
    /\ store_at <= Len(store_calls)
    /\ store_calls[store_at] \in {"transcription", "frames"}
    /\ LET g == found_record(FALSE)
       IN  store_seen' = seen_with(
               IF g.doc = NoRec
               THEN [code |-> 404, endpoint |-> store_calls[store_at]]
               ELSE IF store_calls[store_at] = "transcription"
               THEN transcription_response(g.doc)
               ELSE frames_response(g.doc))
    /\ store_at' = store_at + 1
    /\ UNCHANGED <<mongo_connected, collection, video_database>>
    /\ backends_frame

\* the process is started again with MongoDB unavailable: the module-level
\* dict is empty, mongo_connected is False, and the calls are issued again
backends_restart ==
    /\ mongo_connected
    /\ store_at > Len(store_calls)
    /\ mongo_connected' = FALSE
    /\ collection' = NoRec
    /\ video_database' = NoRec
    /\ store_at' = 1
    /\ UNCHANGED store_seen
    /\ backends_frame

NextBackends ==
    \/ backends_save
    \/ backends_update
    \/ backends_get_video_status
    \/ backends_get_results
    \/ backends_restart

SpecBackends == InitBackends /\ [][NextBackends]_vars

(***************************************************************************)
(* What a reader of the record sees                                        *)
(***************************************************************************)
OverallStatus == IF Stored = NoRec THEN None ELSE Stored["status"]

\* VideoController keeps no face-stage status of its own: process_video_async
\* writes the record's status field
FaceStatus ==
    IF Stored = NoRec THEN None
    ELSE IF impl = VideoCtl THEN Stored["status"]
    ELSE Stored["face_extraction"]["status"]

SpeechStatus ==
    IF Stored = NoRec THEN None
    ELSE IF impl = VideoCtl THEN Stored["transcription_status"]
    ELSE Stored["speech_transcription"]["status"]

SpeechError ==
    IF Stored = NoRec THEN None
    ELSE IF impl = VideoCtl THEN Stored["transcription_error"]
    ELSE IF "error" \in DOMAIN Stored["speech_transcription"]
         THEN Stored["speech_transcription"]["error"] ELSE None

\* the number of faces stored as the face outcome, -1 when there is none
FacesStored ==
    IF Stored = NoRec THEN -1
    ELSE IF impl = VideoCtl
         THEN IF "faces_found" \in DOMAIN Stored THEN Stored["faces_found"] ELSE -1
    ELSE IF "faces_detected" \in DOMAIN Stored["face_extraction"]
         THEN Stored["face_extraction"]["faces_detected"] ELSE -1

OverallError ==
    IF Stored = NoRec THEN None
    ELSE IF impl = VideoCtl THEN Stored["transcription_error"]
    ELSE IF "error" \in DOMAIN Stored THEN Stored["error"] ELSE None

FacePositions == {"face_start", "face"}
SpeechPositions == {"speech", "transcribe"}

(***************************************************************************)
(* C1: when the aggregation step reads two terminal stage statuses, the    *)
(* overall status it decides is completed for (completed, completed),      *)
(* failed for (failed, failed) and partial_success for the two mixed       *)
(* pairs, and that is the status stored once its update has been applied.  *)
(***************************************************************************)
C1_TruthTable ==
    (/\ aggregation # NoRec
     /\ aggregation.face_status \in TerminalStage
     /\ aggregation.speech_status \in TerminalStage)
    => /\ aggregation.status =
            CASE aggregation.face_status = "completed"
                    /\ aggregation.speech_status = "completed" -> "completed"
              [] aggregation.face_status = "failed"
                    /\ aggregation.speech_status = "failed" -> "failed"
              [] aggregation.face_status = "completed"
                    /\ aggregation.speech_status = "failed" -> "partial_success"
              [] aggregation.face_status = "failed"
                    /\ aggregation.speech_status = "completed" -> "partial_success"
       /\ (aggregation.applied /\ pc = "done" => OverallStatus = aggregation.status)

C1_Witness ==
    /\ pc = "done"
    /\ aggregation # NoRec
    /\ aggregation.face_status = "failed"
    /\ aggregation.speech_status = "completed"
    /\ aggregation.applied
    /\ OverallStatus = "partial_success"

(***************************************************************************)
(* C2: whatever the face stage returned, the job goes on to the speech     *)
(* stage unless an exception reached the job's outer handler; a job that   *)
(* ends without such an exception has run the speech stage, whose status   *)
(* is terminal in the record when no store call failed; and no step of the *)
(* speech stage changes the face stage's status.                           *)
(***************************************************************************)
C2_SpeechRunsRegardless ==
    [][/\ ((pc \in FacePositions /\ pc' \notin FacePositions \cup {"except"})
            => (pc' = "speech"))
       /\ ((pc # "done" /\ pc' = "done" /\ exc' = None)
            => (/\ speech_result' # NoRec
                /\ (~store_faulted' => SpeechStatus' \in TerminalStage)))
       /\ ((pc \in SpeechPositions) => (FaceStatus' = FaceStatus))]_vars

C2_Witness ==
    /\ pc = "done"
    /\ exc = None
    /\ ~store_faulted
    /\ face_result # NoRec
    /\ ~face_result.success
    /\ FaceStatus = "failed"
    /\ speech_result # NoRec
    /\ SpeechStatus \in TerminalStage

(***************************************************************************)
(* C3: in every run without a store failure in which the face stage        *)
(* completed and the speech stage raised, the final record has overall     *)
(* status partial_success, the speech stage failed with the raised message *)
(* and the face stage completed with the outcome it returned.              *)
(***************************************************************************)
C3_PartialSuccessAfterSpeechFailure ==
    (/\ pc = "done"
     /\ ~store_faulted
     /\ face_result # NoRec /\ face_result.success
     /\ speech_result # NoRec /\ ~speech_result.success)
    => /\ OverallStatus = "partial_success"
       /\ SpeechStatus = "failed"
       /\ SpeechError = speech_result.error
       /\ FaceStatus = "completed"
       /\ FacesStored = face_result.faces_detected

(***************************************************************************)
(* C4: no step of the face stage or of the speech stage changes the        *)
(* overall status of the record (checked on the steps in which no store    *)
(* call fails).                                                            *)
(***************************************************************************)
C4_StagesNeverWriteOverall ==
    [][(pc \in FacePositions \cup SpeechPositions /\ ~store_faulted')
          => (OverallStatus' = OverallStatus)]_vars

(***************************************************************************)
(* C5: in every state of a run without a store failure in which the        *)
(* overall status is terminal, both stage statuses are terminal and the    *)
(* overall status is the aggregation rule applied to them.                 *)
(***************************************************************************)
C5_OverallIsFunctionOfStages ==
    (~store_faulted /\ OverallStatus \in TerminalOverall)
    => /\ FaceStatus \in TerminalStage
       /\ SpeechStatus \in TerminalStage
       /\ OverallStatus = overall_status(FaceStatus, SpeechStatus)

(***************************************************************************)
(* C6: whenever the overall status is partial_success, one stage is        *)
(* completed and the other is failed.                                      *)
(***************************************************************************)
C6_PartialMeansOneEach ==
    OverallStatus = "partial_success"
    => {FaceStatus, SpeechStatus} = {"completed", "failed"}

(***************************************************************************)
(* C7: a job that has returned has left a terminal overall status.         *)
(***************************************************************************)
C7_RunEndsTerminal ==
    pc = "done" => OverallStatus \in TerminalOverall

(***************************************************************************)
(* C8: the step of the job's outer exception handler leaves the overall    *)
(* status failed with the exception's message on the record, and leaves    *)
(* every terminal stage result as it was.                                  *)
(***************************************************************************)
C8_HandlerForcesFailed ==
    [][(pc = "except" /\ pc' # "except")
          => (/\ OverallStatus' = "failed"
              /\ OverallError' = exc
              /\ (FaceStatus \in TerminalStage => FaceStatus' = FaceStatus)
              /\ (SpeechStatus \in TerminalStage => SpeechStatus' = SpeechStatus)
              /\ FacesStored' = FacesStored
              /\ (impl \in NestedImpls =>
                     (/\ Stored'["face_extraction"] = Stored["face_extraction"]
                      /\ Stored'["speech_transcription"] = Stored["speech_transcription"])))]_vars

(***************************************************************************)
(* C9: no exception leaves the background job.                             *)
(***************************************************************************)
C9_JobNeverRaises ==
    pc # "raised"

(***************************************************************************)
(* C10: when no store call failed, right after the first step of the job   *)
(* the record reads overall status processing and both stage statuses      *)
(* processing.                                                             *)
(***************************************************************************)
C10_FirstStepAllProcessing ==
    (~store_faulted /\ pc \in {"face", "face_start"})
    => /\ OverallStatus = "processing"
       /\ FaceStatus = "processing"
       /\ SpeechStatus = "processing"

(***************************************************************************)
(* Stage results as a reader of the record sees them                       *)
(***************************************************************************)
\* the face stage's stored error; VideoFaceExtractorService writes it to
\* the field error_message
FaceErrorStored ==
    IF Stored = NoRec THEN None
    ELSE IF impl = VideoCtl
         THEN IF "error_message" \in DOMAIN Stored THEN Stored["error_message"] ELSE None
    ELSE IF "error" \in DOMAIN Stored["face_extraction"]
         THEN Stored["face_extraction"]["error"] ELSE None

\* fields of the speech outcome in the nested record
SpeechOutcomeKeys ==
    {"audio_file_path", "transcription_segments", "total_segments",
     "overall_confidence", "overall_confidence_percentage",
     "overall_confidence_quality"}

\* some part of the face outcome is stored
FaceOutcomeStored ==
    /\ Stored # NoRec
    /\ IF impl = VideoCtl
       THEN {"frames_extracted", "faces_found"} \cap DOMAIN Stored # {}
       ELSE {"faces_detected", "frames_dir"} \cap DOMAIN Stored["face_extraction"] # {}

\* some part of the speech outcome is stored
SpeechOutcomeStored ==
    /\ Stored # NoRec
    /\ IF impl = VideoCtl
       THEN \/ Stored["audio_file_path"] # None
            \/ Stored["transcription_segments"] # <<>>
       ELSE SpeechOutcomeKeys \cap DOMAIN Stored["speech_transcription"] # {}

\* a stage status in the vocabulary queued / processing / completed /
\* failed: VideoController starts the speech stage at "pending" and the
\* record, whose status is also the face stage's, at "uploaded"
StageStatus(s) == IF s \in {"pending", "uploaded"} THEN "queued" ELSE s

(***************************************************************************)
(* C11: when the job is at the speech stage the record holds the terminal  *)
(* result the face stage returned (completed with its outcome, or failed   *)
(* with its error), and when the job is at the aggregation step the record *)
(* holds the terminal result the speech stage returned.                    *)
(***************************************************************************)
C11_ResultsPersistedInOrder ==
    /\ (pc \in SpeechPositions /\ face_result # NoRec)
        => IF face_result.success
           THEN FaceStatus = "completed" /\ FacesStored = face_result.faces_detected
           ELSE FaceStatus = "failed" /\ FaceErrorStored = face_result.error
    /\ (pc = "aggregate" /\ speech_result # NoRec)
        => IF speech_result.success
           THEN SpeechStatus = "completed" /\ SpeechOutcomeStored
           ELSE SpeechStatus = "failed" /\ SpeechError = speech_result.error

(***************************************************************************)
(* C12: in every state of a run without a store failure, each stage's      *)
(* error is stored exactly when that stage's status is failed.             *)
(***************************************************************************)
C12_ErrorIffFailed ==
    (~store_faulted /\ Stored # NoRec)
    => /\ (FaceErrorStored # None <=> FaceStatus = "failed")
       /\ (SpeechError # None <=> SpeechStatus = "failed")

(***************************************************************************)
(* C13: in every state of a run without a store failure, each stage's      *)
(* outcome is stored exactly when that stage's status is completed.        *)
(***************************************************************************)
C13_OutcomeIffCompleted ==
    (~store_faulted /\ Stored # NoRec)
    => /\ (FaceOutcomeStored <=> FaceStatus = "completed")
       /\ (SpeechOutcomeStored <=> SpeechStatus = "completed")

\* the changes of a stage status the stage's state machine has
StageChanges ==
    {<<"queued", "processing">>, <<"processing", "completed">>,
     <<"processing", "failed">>}

\* the changes of the overall status the video's state machine has
OverallChanges ==
    {<<"uploaded", "processing">>, <<"processing", "completed">>,
     <<"processing", "partial_success">>, <<"processing", "failed">>}

(***************************************************************************)
(* C14: every step that changes a stage's stored status changes it from    *)
(* queued to processing, from processing to completed or from processing   *)
(* to failed.                                                              *)
(***************************************************************************)
C14_StageTransitions ==
    [][/\ ((FaceStatus # None /\ FaceStatus' # FaceStatus)
            => (<<StageStatus(FaceStatus), StageStatus(FaceStatus')>> \in StageChanges))
       /\ ((SpeechStatus # None /\ SpeechStatus' # SpeechStatus)
            => (<<StageStatus(SpeechStatus), StageStatus(SpeechStatus')>> \in StageChanges))]_vars

(***************************************************************************)
(* C15: every step that changes the stored overall status changes it from  *)
(* uploaded to processing or from processing to completed, partial_success *)
(* or failed (checked on the steps of runs in which no store call has      *)
(* failed).                                                                *)
(***************************************************************************)
C15_OverallTransitions ==
    [][(~store_faulted' /\ OverallStatus # None /\ OverallStatus' # OverallStatus)
          => (<<OverallStatus, OverallStatus'>> \in OverallChanges)]_vars

\* the response's fields that carry the stored speech outcome
SpeechOutcomeReturned(resp) ==
    \A k \in SpeechOutcomeKeys :
        k \in DOMAIN resp /\ resp[k] = Stored["speech_transcription"][k]

\* the response's fields that carry the stored face outcome
FaceOutcomeReturned(resp) ==
    /\ {"faces_detected", "frames_directory"} \subseteq DOMAIN resp
    /\ resp["faces_detected"] = Stored["face_extraction"]["faces_detected"]
    /\ resp["frames_directory"] = Stored["face_extraction"]["frames_dir"]

(***************************************************************************)
(* C16: a poll of a stage's result endpoint that the store answers, for a  *)
(* video that has a record, returns the stage's status and no outcome      *)
(* field while the stage is queued or processing, every field of the       *)
(* stored outcome (for speech including the three overall confidence       *)
(* values) when the stage is completed, and the stored error when the      *)
(* stage is failed.                                                        *)
(***************************************************************************)
C16_PollReturnsStageResult ==
    [][(/\ poll' # poll
        /\ "endpoint" \in DOMAIN poll'
        /\ poll'.code # 500
        /\ Stored # NoRec)
       => (/\ poll'.code = 200
           /\ (poll'.endpoint = "transcription" =>
                 (/\ (SpeechStatus \in {"queued", "processing"} =>
                        (/\ "status" \in DOMAIN poll'
                         /\ poll'["status"] = SpeechStatus
                         /\ DOMAIN poll' \cap SpeechOutcomeKeys = {}))
                  /\ (SpeechStatus = "completed" => SpeechOutcomeReturned(poll'))
                  /\ (SpeechStatus = "failed" =>
                        (/\ "error" \in DOMAIN poll'
                         /\ poll'["error"] = SpeechError))))
           /\ (poll'.endpoint = "frames" =>
                 (/\ (FaceStatus \in {"queued", "processing"} =>
                        (/\ "status" \in DOMAIN poll'
                         /\ poll'["status"] = FaceStatus
                         /\ DOMAIN poll' \cap {"faces_detected", "frames_directory"} = {}))
                  /\ (FaceStatus = "completed" => FaceOutcomeReturned(poll'))
                  /\ (FaceStatus = "failed" =>
                        (/\ "error" \in DOMAIN poll'
                         /\ poll'["error"] = FaceErrorStored)))))]_vars

(***************************************************************************)
(* Confidence scoring: a list of one segment gives the two functions'      *)
(* values at that segment's log-probability                                *)
(***************************************************************************)
\* the scoring has run on a list of exactly one segment
ScoredOne == scored # NoRec /\ Len(confidence_scores) = 1
\* that segment's log-probability, in thousandths
OneLogProb == confidence_scores[1]
\* its percentage, in tenths of a percent
OnePercentage == scored.transcription_segments[1].confidence_percentage

(***************************************************************************)
(* C17: for every log-probability <= 0 the percentage lies in [0, 100],    *)
(* is 100.0 at 0, is 0 at every log-probability <= -2.5, and does not      *)
(* increase when the log-probability decreases by one step of the scale.   *)
(***************************************************************************)
C17_PercentageRange ==
    ScoredOne
    => /\ OnePercentage \in 0..1000
       /\ (OneLogProb = 0 => OnePercentage = 1000)
       /\ (OneLogProb <= -2500 => OnePercentage = 0)
       /\ convert_confidence_to_percentage(Thousandths(OneLogProb - 1))
             <= OnePercentage

C17_Witness ==
    /\ ScoredOne
    /\ OneLogProb = -2501
    /\ OnePercentage = 0

(***************************************************************************)
(* C18: the percentage of log-probability -0.1 is within two points of     *)
(* 90, that of -0.3 within two points of 74, that of -0.5 within two       *)
(* points of 61 and that of -1.0 within two points of 37.                  *)
(***************************************************************************)
C18_Calibration ==
    ScoredOne
    => /\ (OneLogProb = -100 => OnePercentage \in 880..920)
       /\ (OneLogProb = -300 => OnePercentage \in 720..760)
       /\ (OneLogProb = -500 => OnePercentage \in 590..630)
       /\ (OneLogProb = -1000 => OnePercentage \in 350..390)

(***************************************************************************)
(* C19: every log-probability <= 0 gets the label of the one range it      *)
(* lies in: [-0.1, 0] Excellent, [-0.3, -0.1) Good, [-0.5, -0.3) Fair,     *)
(* [-1.0, -0.5) Poor, below -1.0 Very Poor.                                *)
(***************************************************************************)
C19_QualityPartition ==
    ScoredOne
    => LET label == scored.overall_confidence_quality
       IN  /\ (label = "Excellent" <=> OneLogProb \in -100..0)
           /\ (label = "Good" <=> OneLogProb \in -300..-101)
           /\ (label = "Fair" <=> OneLogProb \in -500..-301)
           /\ (label = "Poor" <=> OneLogProb \in -1000..-501)
           /\ (label = "Very Poor" <=> OneLogProb < -1000)

C19_Witness ==
    /\ ScoredOne
    /\ OneLogProb = -300
    /\ scored.overall_confidence_quality = "Good"

(***************************************************************************)
(* C20: for a non-empty list of segments the overall confidence is the sum *)
(* of the segments' log-probabilities divided by their number, the overall *)
(* percentage and quality are the two functions applied to it, and the     *)
(* list [-0.05, -0.4, -0.9] gives -0.45, Fair and 82.0.                    *)
(***************************************************************************)
C20_OverallIsMean ==
    (scored # NoRec /\ confidence_scores # <<>>)
    => LET overall == scored.overall_confidence
           total == sum(confidence_scores)
           count == Len(confidence_scores)
       IN  /\ overall.den > 0
           /\ overall.num * 1000 * count = total * overall.den
           /\ scored.overall_confidence_percentage =
                 convert_confidence_to_percentage(overall)
           /\ scored.overall_confidence_quality = get_confidence_quality(overall)
           /\ (confidence_scores = <<-50, -400, -900>>
                 => /\ overall.num * 1000 = -450 * overall.den
                    /\ scored.overall_confidence_quality = "Fair"
                    /\ scored.overall_confidence_percentage = 820)

C20_Witness ==
    /\ scored # NoRec
    /\ confidence_scores = <<-50, -400, -900>>
    /\ scored.overall_confidence_quality = "Fair"
    /\ scored.overall_confidence_percentage = 820

\* the transcriber returned no segments and the result has been built
ScoredNoSegments == scored # NoRec /\ confidence_scores = <<>>

\* C36: when the transcriber returns no segments the speech stage still ends
\* Completed, with zero segments, a total duration of 0 and overall raw
\* confidence 0, so that the overall percentage is 100.0 and the overall
\* quality is Excellent.
C36_NoSegmentsStillCompleted ==
    ScoredNoSegments =>
        LET stored == speech_data(scored).speech_transcription
        IN  /\ scored.success
            /\ stored.status = "completed"
            /\ stored.transcription_segments = <<>>
            /\ stored.total_segments = 0
            /\ stored.total_duration = 0
            /\ stored.overall_confidence.num = 0
            /\ stored.overall_confidence_percentage = 1000
            /\ stored.overall_confidence_quality = "Excellent"

C36_Witness ==
    /\ ScoredNoSegments
    /\ scored.total_segments = 0
    /\ scored.overall_confidence_quality = "Excellent"

(***************************************************************************)
(* The frame sampler                                                       *)
(***************************************************************************)
Ceil(n, k) == (n + k - 1) \div k

\* the indices 0, k, 2k, ... below n
SampledIndices(n, k) == [i \in 1..Ceil(n, k) |-> (i - 1) * k]

\* the sampler has run to the end of the stream and nothing was raised
SamplerEnded == pc = "extracted" /\ exc = None

\* C21: for a source of N decodable frames and interval k >= 1 the sampler
\* inspects exactly ceil(N / k) frames, those at indices 0, k, 2k, ... in
\* increasing order, and stops at end of stream.
C21_SamplerInspectsEveryKth ==
    /\ (impl \in NestedImpls /\ exc = None) =>
          inspected = SampledIndices(frames_processed, frame_interval)
    /\ SamplerEnded =>
          /\ frames_processed = total_frames
          /\ inspected = SampledIndices(total_frames, frame_interval)
          /\ Len(inspected) = Ceil(total_frames, frame_interval)

\* a video whose sampled frames are the indices 0, 30 and 60
C21_Witness ==
    /\ SamplerEnded
    /\ frame_interval = DefaultFrameInterval
    /\ inspected = <<0, 30, 60>>

\* the status and the error the face stage ends with
FaceStageStatus ==
    IF impl \in NestedImpls
    THEN IF face_result.success THEN "completed" ELSE "failed"
    ELSE face_result.status

FaceStageError ==
    IF impl \in NestedImpls
    THEN IF face_result.success THEN None ELSE face_result.error
    ELSE IF "error_message" \in DOMAIN face_result
         THEN face_result.error_message ELSE None

\* the sampled-frame count the face outcome reports
SampledFramesReported ==
    IF impl \in NestedImpls THEN face_result.processed_frames
    ELSE face_result.frames_extracted

\* C22: the sampled-frame count reported in the face outcome equals the
\* number of frames the detector inspected (those at indices divisible by
\* the interval), not the number of frames decoded.
C22_ReportsInspectedFrames ==
    (SamplerEnded /\ FaceStageStatus = "completed") =>
        SampledFramesReported = Len(inspected)

\* the face counter the face outcome reports
FacesReported ==
    IF impl \in NestedImpls THEN face_result.faces_detected
    ELSE face_result.faces_found

\* the inspected frames for which the detector returned at least one box
FramesWithBoxes ==
    LET RECURSIVE keep(_)
        keep(i) == IF i > Len(inspected) THEN <<>>
                   ELSE IF boxes_seen[i] > 0
                        THEN <<inspected[i]>> \o keep(i + 1)
                        ELSE keep(i + 1)
    IN  keep(1)

\* the number of crops written for the frame of index n
CropsOf(n) == Cardinality({i \in 1..Len(saved_crops) : saved_crops[i][1] = n})

\* C23: facesDetected is the sum over the inspected frames of the boxes the
\* detector returned; a sampled frame with no box is not persisted, one with
\* a box is persisted exactly once, one crop is persisted per box, so the
\* number of crops equals facesDetected.
C23_FacesAndFilesMatchBoxes ==
    (SamplerEnded /\ FaceStageStatus = "completed") =>
        /\ FacesReported = sum(boxes_seen)
        /\ saved_frames = FramesWithBoxes
        /\ \A i \in 1..Len(inspected) : CropsOf(inspected[i]) = boxes_seen[i]
        /\ Len(saved_crops) = FacesReported

\* C25: when frame decoding or face detection raises during the face stage,
\* the stage ends Failed with the message of the exception that was raised,
\* and the frames and crops persisted before are left in place.
C25_RaiseFailsFaceStage ==
    (pc = "extracted" /\ exc = FaceError) =>
        /\ FaceStageStatus = "failed"
        /\ FaceStageError = FaceError

(***************************************************************************)
(* The crop rectangle                                                      *)
(***************************************************************************)
Cropped == crop_rect # NoRec /\ crop_rect.found

\* C24: for every detected box lying inside an image of width W and height
\* H, the margin-expanded crop rectangle (x, y, w, h) satisfies 0 <= x,
\* 0 <= y, x + w <= W and y + h <= H.
C24_CropInsideImage ==
    Cropped =>
        /\ 0 <= crop_rect.x
        /\ 0 <= crop_rect.y
        /\ crop_rect.x + crop_rect.w <= img_shape.width
        /\ crop_rect.y + crop_rect.h <= img_shape.height

\* the whole margin fits on the x axis and is cut on both sides of the y axis
C24_Witness ==
    /\ Cropped
    /\ crop_rect.x = face_box.x - margin
    /\ crop_rect.x > 0
    /\ crop_rect.w = face_box.w + 2 * margin
    /\ crop_rect.y = 0
    /\ crop_rect.h = img_shape.height

\* C35: for every detected box (x, y, w, h) inside a W by H image, the
\* persisted crop is exactly the box grown by 20 pixels on each of its four
\* sides and then intersected with the image: its left edge is
\* max(x - 20, 0), its top edge max(y - 20, 0), its right edge
\* min(x + w + 20, W) and its bottom edge min(y + h + 20, H).
C35_CropIsGrownBoxInImage ==
    Cropped =>
        /\ crop_rect.x = max(face_box.x - 20, 0)
        /\ crop_rect.y = max(face_box.y - 20, 0)
        /\ crop_rect.x + crop_rect.w =
              min(face_box.x + face_box.w + 20, img_shape.width)
        /\ crop_rect.y + crop_rect.h =
              min(face_box.y + face_box.h + 20, img_shape.height)

(***************************************************************************)
(* Pitch analysis and emotion classification                               *)
(***************************************************************************)
PitchAnalysed == pitch_result # NoRec

NoVoice == \A i \in 1..Len(pitch_values) : pitch_values[i] = 0

\* C26: pitch analysis of a waveform with no voiced samples returns average,
\* minimum, maximum and standard deviation all 0 together with the
\* no-voice-detected label, and analyze_pitch never raises, whatever the
\* input and whatever fails inside.
C26_NoVoiceAndNeverRaises ==
    PitchAnalysed =>
        /\ "raised" \notin DOMAIN pitch_result
        /\ (NoVoice /\ ~pitch_raises) =>
              /\ pitch_result.average_pitch = 0
              /\ pitch_result.min_pitch = 0
              /\ pitch_result.max_pitch = 0
              /\ pitch_result.pitch_std.num = 0
              /\ pitch_result.emotion = "Unknown - No voice detected"

\* an unvoiced track of three samples has been analysed
C26_Witness ==
    /\ PitchAnalysed
    /\ ~pitch_raises
    /\ pitch_values = <<0, 0, 0>>
    /\ pitch_result.emotion = "Unknown - No voice detected"

\* the mean pitch of the voiced samples, as the rational num / den
MeanPitch == np_mean(voiced_pitch(pitch_values))

\* C28: emotion classification maps every mean pitch to exactly one label:
\* below 140 Hz Calm / Deep Voice, from 140 up to but excluding 200
\* Neutral / Confident, from 200 up to but excluding 250 Animated / Engaged,
\* 250 or above Excited / High-pitched / Nervous.
C28_EmotionThresholds ==
    (PitchAnalysed /\ ~pitch_raises /\ ~NoVoice) =>
        LET m == MeanPitch
            e == pitch_result.emotion
        IN  /\ (e = "Calm / Deep Voice") <=> (m.num < 140 * m.den)
            /\ (e = "Neutral / Confident") <=>
                  (140 * m.den <= m.num /\ m.num < 200 * m.den)
            /\ (e = "Animated / Engaged") <=>
                  (200 * m.den <= m.num /\ m.num < 250 * m.den)
            /\ (e = "Excited / High-pitched / Nervous") <=>
                  (250 * m.den <= m.num)

\* a mean of exactly 250 Hz over two voiced samples and an unvoiced one
C28_Witness ==
    /\ PitchAnalysed
    /\ ~pitch_raises
    /\ pitch_values = <<250, 0, 250>>
    /\ pitch_result.emotion = "Excited / High-pitched / Nervous"

(***************************************************************************)
(* The pitch and emotion sub-step inside the speech stage                  *)
(***************************************************************************)
\* the speech stage of VideoController has ended and both extract_audio and
\* transcribe_with_timestamps returned: whatever failed, failed after them
TranscribedThenEnded ==
    /\ impl = VideoCtl
    /\ pc \in Ended
    /\ ~store_faulted
    /\ speech_result # NoRec
    /\ (speech_result.success \/ speech_result.error = TypeError)

\* C27: in every run of the speech stage in which audio extraction and
\* transcription succeed, the speech stage ends Completed whatever happens
\* in the pitch-analysis and emotion-classification sub-step; a failure
\* there never makes the speech stage Failed.
C27_PitchNeverFailsSpeech ==
    TranscribedThenEnded => SpeechStatus = "completed"

(***************************************************************************)
(* The transcription model                                                 *)
(***************************************************************************)
\* C29: within one worker process the transcription model is loaded at most
\* once over any sequence and interleaving of jobs and requests (full runs,
\* reprocess, speech-only re-runs); a job that needs the model while it is
\* loaded reuses it.
C29_ModelLoadedOnce == whisper_loads <= 1

(***************************************************************************)
(* Two videos                                                              *)
(***************************************************************************)
\* what the stores hold for one video
RecordOf(video_id) ==
    [collection |-> find_one(two_collection, video_id),
     video_database |-> two_database[video_id]]

\* the step just taken left the record of every video but one as it was
OneRecordTouched ==
    \E video_id \in VideoIds :
        \A other \in VideoIds \ {video_id} : RecordOf(other)' = RecordOf(other)

\* C30: for any interleaving of pipeline runs on two distinct videos, no
\* update made by the run for one video changes any field of the other
\* video's record, and each video's record (the final one included) equals
\* the record its run produces alone.
C30_RunsDoNotInterfere ==
    [][ /\ OneRecordTouched
        /\ \A video_id \in VideoIds : RecordOf(video_id)' = two_alone[video_id]'
      ]_vars

\* video a has completed in Mongo while the run of b, whose face stage
\* failed, is still under way
C30_Witness ==
    /\ two_pc["a"] = "done"
    /\ two_pc["b"] = "speech"
    /\ RecordOf("a").collection # NoRec
    /\ RecordOf("a").collection["status"] = "completed"
    /\ RecordOf("b").collection # NoRec
    /\ RecordOf("b").collection["face_extraction"]["status"] = "failed"

(***************************************************************************)
(* Runs of one video under unrestricted requests                           *)
(***************************************************************************)
\* the jobs that have started and not ended
ActiveJobs == {i \in 1..Len(jobs) : jobs[i].at # "queued"}

\* C31: at most one pipeline run (full run, reprocess run or speech-only
\* re-run) is active for a given video at any time, under any sequence of
\* upload, reprocess and transcribe-only requests.
C31_OneActiveRun == Cardinality(ActiveJobs) <= 1

\* the job of the latest reprocess request has ended
ReprocessFinished ==
    /\ reprocess_run # 0
    /\ \A i \in 1..Len(jobs) : jobs[i].run # reprocess_run

\* C39: after a reprocess request with interval k and the run it starts
\* have finished, the frame records stored for the video are exactly those
\* of the new run (frame numbers 0, k, 2k, ...), even if an earlier run was
\* still executing when reprocess was requested.
C39_FramesAreThoseOfNewRun ==
    ReprocessFinished =>
        frames_collection = SampledIndices(JobFrames, reprocess_interval)

(***************************************************************************)
(* Polling after an upload                                                 *)
(***************************************************************************)
\* the upload's job has ended and nothing its stages depend on failed:
\* the store answered every call, frames were extracted, the audio was
\* extracted and the transcriber returned
StagesSucceeded ==
    /\ pc = "done"
    /\ ~store_faulted
    /\ "success" \in DOMAIN face_result
    /\ face_result.success
    /\ "success" \in DOMAIN speech_result
    /\ (speech_result.success \/ speech_result.error = TypeError)

\* the last response of the status endpoint reports both as completed
PolledCompleted ==
    /\ "code" \in DOMAIN poll
    /\ poll.code = 200
    /\ poll.status = "completed"
    /\ poll.transcription_status = "completed"

\* C32: after a video is uploaded and both of its stages succeed, polling
\* the status endpoint eventually returns a response whose status is
\* completed and whose transcription_status is completed.
C32_PollEventuallyCompleted == StagesSucceeded ~> PolledCompleted

(***************************************************************************)
(* Uploads of bad input                                                    *)
(***************************************************************************)
\* the uploaded file is not a video or cannot be decoded
BadInput == ~upload_file.content_type_video \/ ~upload_file.decodable

\* no record, no job, no stage status
NothingStarted ==
    /\ Stored = NoRec
    /\ pc = "idle"
    /\ FaceStatus = None
    /\ SpeechStatus = None

\* C33: an upload rejected as bad input (a file that is not a video or
\* cannot be decoded) is rejected immediately: no video record is created,
\* no job is enqueued, and neither stage ever leaves Queued.
C33_BadInputRejected == BadInput => NothingStarted

(***************************************************************************)
(* The two backends of the record store                                    *)
(***************************************************************************)
\* the calls have been issued to both backends
BothBackendsDone == ~mongo_connected /\ store_at > Len(store_calls)

\* C34: the document-store backend and the in-memory fallback are
\* interchangeable: for every sequence of create, dotted-path partial update
\* and read issued by the upload handler, the pipeline and the status /
\* transcription / frames endpoints, the records and responses observed are
\* the same under both backends.
C34_BackendsInterchangeable ==
    BothBackendsDone => store_seen.connected = store_seen.fallback

(***************************************************************************)
(* What the pipeline leaves alone                                          *)
(***************************************************************************)
\* identifier, filename, source path, size and upload time, as far as the
\* implementation's record has them
UploadFields == {"video_id", "filename", "file_path", "file_size", "upload_time"}
Uploaded(rec) == [k \in UploadFields \cap DOMAIN rec |-> rec[k]]

\* the step creates the record
Created == Stored = NoRec /\ Stored' # NoRec

\* C37: no pipeline operation (full run, reprocess run, speech-only re-run)
\* changes a record's identifier, filename, source path, size or upload
\* time, and none deletes the record; the record is created with overall
\* status Uploaded and both stages Queued, and it exists whenever a job is
\* enqueued or running.
C37_UploadFieldsKept ==
    [][/\ (Stored # NoRec) =>
              ((Stored' # NoRec) /\ (Uploaded(Stored') = Uploaded(Stored)))
       /\ Created =>
              (/\ OverallStatus' = "uploaded"
               /\ StageStatus(FaceStatus') = "queued"
               /\ StageStatus(SpeechStatus') = "queued")
       /\ (pc' # "idle") => (Stored' # NoRec)]_vars

\* a run has ended and the record still carries what upload_video wrote
C37_Witness ==
    /\ pc = "done"
    /\ impl = CompleteApi
    /\ OverallStatus = "completed"
    /\ Uploaded(Stored) = Uploaded(video_record)

\* the fields transcribe_existing_video and process_speech_only write
TranscriptionFields ==
    {"transcription_status", "transcription_error", "audio_file_path",
     "transcription_segments", "pitch_analysis", "emotion_classification"}

\* the record without them: overall status, face-stage statistics, errors,
\* frame interval, upload fields
OutsideTranscription(rec) ==
    IF rec = NoRec THEN NoRec
    ELSE [k \in DOMAIN rec \ TranscriptionFields |-> rec[k]]

SpeechOnlyPositions ==
    {"speech_only_queued", "speech_only_audio", "speech_only_transcribe"}

\* the step is the speech-only request being accepted or a step of its job
SpeechOnlyStep ==
    /\ impl = VideoCtl
    /\ (pc \in SpeechOnlyPositions \/ pc' = "speech_only_queued")

\* C38: a speech-only re-run (transcribe_existing_video followed by
\* process_speech_only) changes only the transcription fields of the video
\* record: the overall status, the face-stage statistics and the stored
\* frame data are the same after it as before it, whether it succeeds or
\* fails.
C38_SpeechOnlyKeepsTheRest ==
    [][SpeechOnlyStep =>
          (OutsideTranscription(Stored') = OutsideTranscription(Stored))]_vars

\* the re-run's job is past its audio step on a record whose face stage
\* completed in the earlier run
C38_Witness ==
    /\ impl = VideoCtl
    /\ pc = "speech_only_transcribe"
    /\ Stored # NoRec
    /\ Stored["status"] = "completed"
    /\ "frames_extracted" \in DOMAIN Stored
    /\ Stored["transcription_status"] = "processing"

====
